---- MODULE Spec2Model ----
(***************************************************************************)
(* A model of lektor-redirect: the URL normalizer (util.py), the redirect  *)
(* index and its conflict checks (plugin.py, RedirectIndex), the           *)
(* resolution service built on them (plugin.py, RedirectPlugin) and the    *)
(* virtual sources with their context-local switch (sources.py).           *)
(*                                                                         *)
(* A string is a sequence of one-character strings, so that the path       *)
(* algorithms work on characters as posixpath does: "/a.b" is              *)
(* <<"/", "a", ".", "b">>.                                                 *)
(***************************************************************************)
EXTENDS Integers, Sequences, FiniteSets, TLC

VARIABLES
    redirect_from,  \* record path -> the raw strings of its redirect field
    base_path,      \* pad.db.config.base_path
    alternatives,   \* env.load_config().list_alternatives()
    template,       \* the "redirect.template" setting of the plugin
    verbosity,      \* reporter.verbosity
    _index_cache,   \* RedirectPlugin._index_cache: pad -> RedirectIndex
    index_id,       \* pad -> the identity of the object _index_cache holds for it
    env,            \* what has been registered in the Lektor environment
    _disable_url_resolution,  \* Redirect._disable_url_resolution: context -> bool
    tokens,         \* context -> the tokens of the scopes it is inside, innermost last
    lookup,         \* context -> the raise_on_conflict call it is inside, if any
    reported,       \* the messages the reporter received from the last call
    result          \* the call that has just returned: its name, its arguments
                    \* and its value, until the caller takes it

\* The site: its content and its configuration. No call changes them.
site == <<redirect_from, base_path, alternatives, template, verbosity>>

\* The context-local switch and the calls that are under way.
scopes == <<_disable_url_resolution, tokens, lookup>>

vars == <<redirect_from, base_path, alternatives, template, verbosity,
          _index_cache, index_id, env, _disable_url_resolution, tokens, lookup,
          reported, result>>

----------------------------------------------------------------------------
(* Bounds *)

\* Longest path string handed to normalize_url_path in the normalizer runs.
MaxPathLen == 5
\* Most redirect declarations in one content tree.
MaxDecls == 2
\* Deepest nesting of disable_url_resolution scopes in one context.
MaxDepth == 2
\* Longest string over QuoteChars handed to nginx_quote_for_map.
MaxQuoteLen == 3

----------------------------------------------------------------------------
(* Strings *)

SLASH == <<"/">>

\* The characters of the model with their code points (Python compares and
\* sorts str by code point).
ord(c) ==
    CASE c = "#" -> 35
      [] c = "." -> 46
      [] c = "/" -> 47
      [] c = ":" -> 58
      [] c = "a" -> 97
      [] c = "b" -> 98
      [] c = "c" -> 99
      [] c = "p" -> 112
      [] c = "r" -> 114

\* s < t for str: lexicographic by code point.
StrLess(s, t) ==
    \E i \in 1..(Len(t)) :
        /\ \A j \in 1..(i - 1) : j <= Len(s) /\ s[j] = t[j]
        /\ \/ i = Len(s) + 1
           \/ i <= Len(s) /\ ord(s[i]) < ord(t[i])

startswith(s, prefix) ==
    /\ Len(prefix) <= Len(s)
    /\ SubSeq(s, 1, Len(prefix)) = prefix

endswith(s, suffix) ==
    /\ Len(suffix) <= Len(s)
    /\ SubSeq(s, Len(s) - Len(suffix) + 1, Len(s)) = suffix

\* c in s, for a one-character c.
contains(s, c) == \E i \in 1..Len(s) : s[i] = c

\* s.rfind("/") + 1: the index (from 0) just after the last slash, 0 if none.
AfterLastSlash(s) ==
    IF contains(s, "/")
    THEN CHOOSE i \in 1..Len(s) : s[i] = "/" /\ \A j \in (i + 1)..Len(s) : s[j] # "/"
    ELSE 0

\* s.split("/"): the pieces between slashes, empty pieces included.
RECURSIVE split(_)
split(s) ==
    IF ~contains(s, "/")
    THEN <<s>>
    ELSE LET i == CHOOSE k \in 1..Len(s) : s[k] = "/" /\ \A j \in 1..(k - 1) : s[j] # "/"
         IN  <<SubSeq(s, 1, i - 1)>> \o split(SubSeq(s, i + 1, Len(s)))

\* "/".join(comps)
RECURSIVE join(_)
join(comps) ==
    IF comps = <<>> THEN <<>>
    ELSE IF Len(comps) = 1 THEN comps[1]
    ELSE comps[1] \o SLASH \o join(Tail(comps))

\* s.lstrip("/")
RECURSIVE lstrip(_)
lstrip(s) == IF s # <<>> /\ s[1] = "/" THEN lstrip(Tail(s)) ELSE s

----------------------------------------------------------------------------
(* posixpath, as normalize_url_path uses it *)

\* posixpath.join(a, p) for one p.
posixpath_join(a, p) ==
    IF startswith(p, SLASH) THEN p
    ELSE IF a = <<>> \/ endswith(a, SLASH) THEN a \o p
    ELSE a \o SLASH \o p

\* The loop of posixpath.normpath over the components: "" and "." are skipped,
\* ".." pops a component, or is kept in a relative path that has nothing to pop.
RECURSIVE new_comps(_, _, _)
new_comps(comps, acc, initial_slashes) ==
    IF comps = <<>> THEN acc
    ELSE LET comp == comps[1]
             rest == Tail(comps)
         IN  IF comp = <<>> \/ comp = <<".">>
             THEN new_comps(rest, acc, initial_slashes)
             ELSE IF \/ comp # <<".", ".">>
                     \/ (initial_slashes = 0 /\ acc = <<>>)
                     \/ (acc # <<>> /\ acc[Len(acc)] = <<".", ".">>)
             THEN new_comps(rest, Append(acc, comp), initial_slashes)
             ELSE IF acc # <<>>
             THEN new_comps(rest, SubSeq(acc, 1, Len(acc) - 1), initial_slashes)
             ELSE new_comps(rest, acc, initial_slashes)

\* posixpath.normpath: POSIX keeps exactly two leading slashes, and collapses
\* three or more to one.
normpath(path) ==
    IF path = <<>> THEN <<".">>
    ELSE LET initial_slashes ==
                 IF ~startswith(path, SLASH) THEN 0
                 ELSE IF startswith(path, <<"/", "/">>) /\ ~startswith(path, <<"/", "/", "/">>)
                 THEN 2
                 ELSE 1
             joined == join(new_comps(split(path), <<>>, initial_slashes))
             out == [i \in 1..initial_slashes |-> "/"] \o joined
         IN  IF out = <<>> THEN <<".">> ELSE out

\* posixpath.basename
basename(p) == SubSeq(p, AfterLastSlash(p) + 1, Len(p))

\* normalize_url_path looking for the "." in the whole path, not in its basename.
normalize_url_path_DotAnywhere(record_url_path, url_path) ==
    LET joined == IF ~startswith(url_path, SLASH)
                  THEN posixpath_join(record_url_path, url_path)
                  ELSE url_path
        normed == normpath(joined)
    IN  IF ~contains(normed, ".") THEN normed \o SLASH ELSE normed

\* util.normalize_url_path(record, url_path); the record gives its url_path.
normalize_url_path(record_url_path, url_path) ==
    LET joined == IF ~startswith(url_path, SLASH)
                  THEN posixpath_join(record_url_path, url_path)
                  ELSE url_path
        normed == normpath(joined)
    IN  IF ~contains(basename(normed), ".") THEN normed \o SLASH ELSE normed

----------------------------------------------------------------------------
(* The normalizer on its own: every path up to MaxPathLen, every base record *)

PathChars == {"/", ".", "a"}

\* All strings over PathChars of length at most n.
Paths(n) == UNION {[1..k -> PathChars] : k \in 0..n}

None == "None"

\* The records of the pad, named by their Lektor path, as the host presents
\* them: "/a/c.a" and "/r" are attachments, the others pages.
Records == {"/", "/a", "/a/b", "/a/c.a", "/r"}

\* Record.url_path: a page's URL ends with a slash, an attachment's does not.
url_path(record) ==
    CASE record = "/"      -> <<"/">>
      [] record = "/a"     -> <<"/", "a", "/">>
      [] record = "/a/b"   -> <<"/", "a", "/", "b", "/">>
      [] record = "/a/c.a" -> <<"/", "a", "/", "c", ".", "a">>
      [] record = "/r"     -> <<"/", "r">>

\* Record.parent
parent(record) ==
    CASE record = "/"      -> None
      [] record = "/a"     -> "/"
      [] record = "/a/b"   -> "/a"
      [] record = "/a/c.a" -> "/a"
      [] record = "/r"     -> "/"

\* isinstance(record, Page)
is_page(record) == record \in {"/", "/a", "/a/b"}

\* record.children.include_undiscoverable(True) with _include_attachments set:
\* the children and attachments of a page, in the host's query order.
children(record) ==
    CASE record = "/"  -> <<"/a", "/r">>
      [] record = "/a" -> <<"/a/b", "/a/c.a">>
      [] OTHER         -> <<>>

NoCall == [op |-> "none"]

NoDeclarations == [record \in Records |-> {}]

\* The logical contexts (threads, tasks) in which the plugin is called.
Contexts == {"c1", "c2"}

\* A context that is inside no raise_on_conflict call.
NoLookup == [stage |-> "none"]

\* The context variable at its default in every context, no scope entered
\* and no conflict check under way.
DefaultContexts ==
    /\ _disable_url_resolution = [c \in Contexts |-> FALSE]
    /\ tokens = [c \in Contexts |-> <<>>]
    /\ lookup = [c \in Contexts |-> NoLookup]

\* What Redirect._setup_env and RedirectMap._setup_env register.
_setup_env(cls, vpath_prefix) ==
    {<<"add_build_program", cls>>, <<"generator", cls>>,
     <<"virtualpathresolver", vpath_prefix>>, <<"urlresolver", cls>>}

\* The environment once on_setup_env has run.
Registered == _setup_env("Redirect", "redirect") \cup _setup_env("RedirectMap", "redirect-map")

InitNorm ==
    /\ redirect_from = NoDeclarations
    /\ base_path = SLASH
    /\ alternatives = {}
    /\ template = None
    /\ verbosity = 0
    /\ _index_cache = <<>>
    /\ index_id = <<>>
    /\ env = Registered
    /\ DefaultContexts
    /\ reported = <<>>
    /\ \E record \in Records, path \in Paths(MaxPathLen) :
           result = [op |-> "input", record |-> record, url_path |-> path]

\* normalize_url_path(record, url_path)
NormalizeUrlPath ==
    /\ result.op = "input"
    /\ result' = [op |-> "normalize_url_path", record |-> result.record,
                  url_path |-> result.url_path,
                  value |-> normalize_url_path(url_path(result.record), result.url_path)]
    /\ UNCHANGED <<site, scopes, _index_cache, index_id, env, reported>>

\* normalize_url_path(record, normalize_url_path(record, url_path))
NormalizeAgain ==
    /\ result.op = "normalize_url_path"
    /\ result' = [op |-> "normalize_url_path again", record |-> result.record,
                  url_path |-> result.url_path, first |-> result.value,
                  value |-> normalize_url_path(url_path(result.record), result.value)]
    /\ UNCHANGED <<site, scopes, _index_cache, index_id, env, reported>>

NextNorm == NormalizeUrlPath \/ NormalizeAgain

SpecNorm == InitNorm /\ [][NextNorm]_vars

----------------------------------------------------------------------------
(* Claims about normalize_url_path *)

\* C8: normalize_url_path is idempotent: normalizing a normalized path against
\* the same base record gives the same path, for every base and path,
\* the root path and paths that collapse to the root included.
C8_Idempotent ==
    result.op = "normalize_url_path again" => result.value = result.first

\* The final segment of a path: what follows its last slash, trailing slashes
\* apart.
RECURSIVE FinalSegment(_)
FinalSegment(s) ==
    IF s # <<>> /\ s[Len(s)] = "/" THEN FinalSegment(SubSeq(s, 1, Len(s) - 1))
    ELSE split(s)[Len(split(s))]

\* The path normalize_url_path collapses: url_path itself when absolute, else
\* url_path joined onto the base record's URL.
Collapsed(record, path) ==
    normpath(IF startswith(path, SLASH) THEN path
             ELSE posixpath_join(url_path(record), path))

\* C9: the result of normalize_url_path ends with "/" if and only if the final
\* segment of the collapsed path contains no "."; a path whose final segment
\* contains "." is the collapsed path itself, without a trailing slash.
C9_TrailingSlashIffNoDot ==
    result.op = "normalize_url_path" =>
        LET seg == FinalSegment(Collapsed(result.record, result.url_path))
        IN  /\ endswith(result.value, SLASH) <=> ~contains(seg, ".")
            /\ contains(seg, ".") =>
                   result.value = Collapsed(result.record, result.url_path)

\* C9 witness: a relative path with a dotted final segment, joined onto the
\* record's URL, collapsed, and kept without a trailing slash.
C9_Witness ==
    /\ result.op = "normalize_url_path"
    /\ result.record = "/a"
    /\ result.url_path = <<".", "/", "a", ".", "a">>
    /\ result.value = <<"/", "a", "/", "a", ".", "a">>

\* C10: every result of normalize_url_path starts with exactly one "/" and has
\* no empty segment (no two consecutive slashes) and no "." or ".." segment.
C10_CanonicalForm ==
    result.op = "normalize_url_path" =>
        LET v == result.value
            segs == split(v)
        IN  /\ startswith(v, SLASH)
            /\ ~startswith(v, <<"/", "/">>)
            /\ \A i \in 1..(Len(v) - 1) : ~(v[i] = "/" /\ v[i + 1] = "/")
            /\ \A i \in 1..Len(segs) : segs[i] \notin {<<".">>, <<".", ".">>}

----------------------------------------------------------------------------
(* The content tree and the host *)

\* The one content-tree snapshot of the model.
pad == "pad"

root == "/"

\* A source object that is not a record (a static asset): it is not
\* subscriptable.
Asset == "asset"

\* The records whose data model has the redirect field (the pages);
\* record[field] raises KeyError on the others.
HasField == {"/", "/a", "/a/b"}

\* The raw strings a record may write in its redirect field.
RawPool == {
    <<"/", "a">>,
    <<".", ".", "/", "a">>,
    <<"b">>,
    <<"/", "/", "b">>,
    <<"/">>,
    <<"/", "r">>,
    <<"c", ".", "a">> }

\* A raw string whose first segment has a colon in it.
ColonUrl == <<"/", "a", ":", "b">>

\* A raw string that ends in a "#", after a "." that keeps normalize_url_path
\* from appending a slash.
FragmentUrl == <<"/", ".", "#">>

\* "index.html", as the sequence of its characters.
index_html == <<"i", "n", "d", "e", "x", ".", "h", "t", "m", "l">>

\* The declarations the trees of the artifact runs are made of: a directory
\* URL and the index.html below it, a URL with a non-HTML extension and the
\* index.html below it, a URL with an HTML extension in capitals, and the URL
\* of a record.
ArtifactDecls ==
    {<<"/a", <<"/", "b">>>>,
     <<"/a/b", <<"/", "b", "/">> \o index_html>>,
     <<"/", <<"/", "b", ".", "a">>>>,
     <<"/a", <<"/", "b", ".", "a", "/">> \o index_html>>,
     <<"/", <<"/", "b", ".", "H", "T", "M">>>>,
     <<"/a/b", <<"/", "a">>>>}

\* The subsets of S with at most k elements.
RECURSIVE SubsetsUpTo(_, _)
SubsetsUpTo(S, k) ==
    IF k = 0 THEN {{}}
    ELSE LET smaller == SubsetsUpTo(S, k - 1)
         IN  smaller \cup {s \cup {x} : s \in smaller, x \in S}

\* The content trees of the model: the records above, with at most MaxDecls
\* declarations among them.
Trees ==
    {[record \in Records |-> {d[2] : d \in {e \in D : e[1] = record}}] :
        D \in SubsetsUpTo(HasField \X RawPool, MaxDecls)}

BasePaths == {<<"/">>, <<"/", "p", "/">>}

\* The verbosity levels of the reporter: quiet, and verbose.
Verbosities == {0, 1}

\* The pieces of a URL path the host resolves on: cleanup_path collapses
\* repeated slashes and strips the outer ones.
pieces(u) == SelectSeq(split(u), LAMBDA piece : piece # <<>>)

\* pad.resolve_url_path(url_path), called with redirect resolution disabled:
\* the record the host serves at that URL, if any.
resolve_url_path(u) ==
    IF \E record \in Records : pieces(url_path(record)) = pieces(u)
    THEN CHOOSE record \in Records : pieces(url_path(record)) = pieces(u)
    ELSE None

\* util.walk_records: breadth first from the root, pages expanded into their
\* children and attachments.
RECURSIVE walk(_, _)
walk(records, yielded) ==
    IF records = <<>> THEN yielded
    ELSE LET record == Head(records)
         IN  walk(Tail(records) \o (IF is_page(record) THEN children(record) ELSE <<>>),
                  Append(yielded, record))

walk_records == walk(<<root>>, <<>>)

----------------------------------------------------------------------------
(* RedirectPlugin._get_redirect_urls and RedirectIndex *)

\* record[self.redirect_from_field]
field_lookup(source) ==
    IF source = Asset THEN [exc |-> "TypeError"]
    ELSE IF source \notin HasField THEN [exc |-> "KeyError"]
    ELSE [exc |-> None, value |-> redirect_from[source]]

\* normalize_url_path on the bases and declarations of the model, computed
\* once.
normalized ==
    [base_url \in {url_path(record) : record \in Records},
     redirect_url \in RawPool \cup {ColonUrl, FragmentUrl}
                          \cup {d[2] : d \in ArtifactDecls} |->
        normalize_url_path(base_url, redirect_url)]

\* _get_redirect_urls with the record itself as the base of every declaration.
_get_redirect_urls_OwnBase(record) ==
    LET declared == field_lookup(record)
    IN  IF declared.exc \in {"TypeError", "KeyError"} THEN {}
        ELSE {normalized[url_path(record), redirect_url] :
                 redirect_url \in declared.value}

\* RedirectPlugin._get_redirect_urls(record): the declarations of record,
\* normalized against its parent (against itself at the root); no conflict check.
_get_redirect_urls(record) ==
    LET declared == field_lookup(record)
    IN  IF declared.exc \in {"TypeError", "KeyError"} THEN {}
        ELSE LET base == IF parent(record) # None THEN parent(record) ELSE record
             IN  {normalized[url_path(base), redirect_url] :
                     redirect_url \in declared.value}

\* redirects[url_path] after the walk: the records that declare url_path.
redirects(u) ==
    {walk_records[i] : i \in {j \in 1..Len(walk_records) :
                                  u \in _get_redirect_urls(walk_records[j])}}

\* records_by_url after the walk: the last record walked wins a URL.
records_by_url ==
    [u \in {url_path(record) : record \in Records} |->
        walk_records[CHOOSE i \in 1..Len(walk_records) :
            /\ url_path(walk_records[i]) = u
            /\ \A j \in (i + 1)..Len(walk_records) : url_path(walk_records[j]) # u]]

\* targets without the loop that discards the redirect to self.
targets_KeepsSelf(u) == redirects(u)

\* redirects[url_path] with the redirect to self discarded.
targets(u) ==
    IF u \in DOMAIN records_by_url THEN redirects(u) \ {records_by_url[u]}
    ELSE redirects(u)

\* list(targets): a Python set of records iterates in the order of their
\* hashes, so any order of the set may come out.
Orders(S) ==
    {order \in [1..Cardinality(S) -> S] :
        \A i, j \in 1..Cardinality(S) : i # j => order[i] # order[j]}

DeclaredUrls == UNION {_get_redirect_urls(record) : record \in Records}

\* RedirectIndex without the len(targets) > 0 filter: every URL the
\* defaultdict was touched for stays a key.
RedirectIndex_KeepsEmpty ==
    LET keys == DeclaredUrls \cup DOMAIN records_by_url
    IN  {[_redirects |-> r, _records_by_url |-> records_by_url] :
            r \in {f \in [keys -> UNION {Orders(targets(u)) : u \in keys}] :
                      \A u \in keys : f[u] \in Orders(targets(u))}}

\* RedirectIndex(pad): the indexes the constructor can build from the tree.
RedirectIndex ==
    LET keys == {u \in DeclaredUrls : Cardinality(targets(u)) > 0}
    IN  {[_redirects |-> r, _records_by_url |-> records_by_url] :
            r \in {f \in [keys -> UNION {Orders(targets(u)) : u \in keys}] :
                      \A u \in keys : f[u] \in Orders(targets(u))}}

\* d[key] on a defaultdict(list): a missing key is inserted.
subscript_Defaultdict(d, key) ==
    IF key \in DOMAIN d THEN [raised |-> None, dict |-> d]
    ELSE [raised |-> None, dict |-> (key :> <<>>) @@ d]

\* self._redirects[key] of __getitem__, on the plain dict the constructor
\* made: KeyError for a missing key, and the dict as the subscription leaves it.
subscript(d, key) ==
    [raised |-> IF key \in DOMAIN d THEN None ELSE "KeyError", dict |-> d]

\* __getitem__ returning targets[-1]
getitem_Last(index, key) == index._redirects[key][Len(index._redirects[key])]

\* RedirectIndex.__getitem__
getitem(index, key) == index._redirects[key][1]

\* RedirectIndex.__iter__, as a set
iter(index) == DOMAIN index._redirects

\* RedirectIndex.__len__
len(index) == Cardinality(DOMAIN index._redirects)

NoConflict == [exc |-> None, conflict |-> None]

\* raise_on_conflict looking for another declarer before it looks for an
\* existing record.
raise_on_conflict_AmbiguousFirst(index, u, target) ==
    IF url_path(target) = u
    THEN [exc |-> "RedirectToSelfException", conflict |-> None]
    ELSE LET found == IF u \in DOMAIN index._records_by_url
                      THEN index._records_by_url[u] ELSE None
             existing == IF found = None THEN resolve_url_path(u) ELSE found
             candidates == IF u \in DOMAIN index._redirects
                           THEN index._redirects[u] ELSE <<>>
             others == {i \in 1..Len(candidates) : candidates[i] # target}
         IN  IF others # {}
             THEN [exc |-> "AmbiguousRedirectException",
                   conflict |-> candidates[CHOOSE i \in others : \A j \in others : i <= j]]
             ELSE IF existing # None
             THEN [exc |-> "RedirectShadowsExistingRecordException", conflict |-> existing]
             ELSE [exc |-> None, conflict |-> None]

\* raise_on_conflict without the loop over the other declarers.
raise_on_conflict_NoAmbiguity(index, u, target) ==
    IF url_path(target) = u
    THEN [exc |-> "RedirectToSelfException", conflict |-> None]
    ELSE LET found == IF u \in DOMAIN index._records_by_url
                      THEN index._records_by_url[u] ELSE None
             existing == IF found = None THEN resolve_url_path(u) ELSE found
         IN  IF existing # None
             THEN [exc |-> "RedirectShadowsExistingRecordException", conflict |-> existing]
             ELSE [exc |-> None, conflict |-> None]

\* RedirectIndex.raise_on_conflict(url_path, target): the exception raised
\* and the record it names, or NoConflict on a normal return.
raise_on_conflict(index, u, target) ==
    IF url_path(target) = u
    THEN [exc |-> "RedirectToSelfException", conflict |-> None]
    ELSE LET found == IF u \in DOMAIN index._records_by_url
                      THEN index._records_by_url[u] ELSE None
             existing == IF found = None THEN resolve_url_path(u) ELSE found
             candidates == IF u \in DOMAIN index._redirects
                           THEN index._redirects[u] ELSE <<>>
             others == {i \in 1..Len(candidates) : candidates[i] # target}
         IN  IF existing # None
             THEN [exc |-> "RedirectShadowsExistingRecordException", conflict |-> existing]
             ELSE IF others # {}
             THEN [exc |-> "AmbiguousRedirectException",
                   conflict |-> candidates[CHOOSE i \in others : \A j \in others : i <= j]]
             ELSE NoConflict

\* The subclasses of InvalidRedirectException (exceptions.py).
InvalidRedirectException ==
    {"RedirectToSelfException", "RedirectShadowsExistingRecordException",
     "AmbiguousRedirectException"}

\* is_conflict letting the head of the candidate list win an ambiguous URL.
is_conflict_HeadWins(index, u, target) ==
    LET raised == raise_on_conflict(index, u, target)
    IN  IF raised.exc = "AmbiguousRedirectException" /\ getitem(index, u) = target
        THEN [value |-> FALSE, raised |-> None]
        ELSE [value |-> raised.exc # None, raised |-> None]

\* RedirectIndex.is_conflict(url_path, target): the value returned, and the
\* exception that escapes the try instead, if one does.
is_conflict(index, u, target) ==
    LET raised == raise_on_conflict(index, u, target)
    IN  IF raised.exc = "RedirectToSelfException" THEN [value |-> TRUE, raised |-> None]
        ELSE IF raised.exc \in InvalidRedirectException THEN [value |-> TRUE, raised |-> None]
        ELSE IF raised.exc = None THEN [value |-> FALSE, raised |-> None]
        ELSE [raised |-> raised.exc]

\* InvalidRedirectException.reason of each subclass: its text, and the URL and
\* the record it names.
reason(exc, u, conflict) ==
    CASE exc = "RedirectToSelfException" ->
             [text |-> "redirect to self", url_path |-> <<>>, conflict |-> None]
      [] exc = "RedirectShadowsExistingRecordException" ->
             [text |-> "redirect url conflicts with existing record",
              url_path |-> <<>>, conflict |-> conflict]
      [] exc = "AmbiguousRedirectException" ->
             [text |-> "conflicts with redirect", url_path |-> u, conflict |-> conflict]

\* InvalidRedirectException.message: "<url_path> => <target>: <reason>"
message(exc, u, target, conflict) ==
    [url_path |-> u, target |-> target, reason |-> reason(exc, u, conflict)]

\* is_conflict reporting a redirect to self at any verbosity.
is_conflict_reports_AnyVerbosity(index, u, target, warn_on_conflict) ==
    LET raised == raise_on_conflict(index, u, target)
    IN  IF raised.exc = "RedirectToSelfException"
        THEN IF warn_on_conflict
             THEN <<[prefix |-> "Ignoring redirect: ",
                     message |-> message(raised.exc, u, target, raised.conflict)]>>
             ELSE <<>>
        ELSE IF raised.exc \in InvalidRedirectException
        THEN IF warn_on_conflict
             THEN <<[prefix |-> "Invalid redirect: ",
                     message |-> message(raised.exc, u, target, raised.conflict)]>>
             ELSE <<>>
        ELSE <<>>

\* What is_conflict(url_path, target, warn_on_conflict) hands to
\* reporter.report_generic: no message or one.
is_conflict_reports(index, u, target, warn_on_conflict) ==
    LET raised == raise_on_conflict(index, u, target)
    IN  IF raised.exc = "RedirectToSelfException"
        THEN IF warn_on_conflict /\ verbosity >= 1
             THEN <<[prefix |-> "Ignoring redirect: ",
                     message |-> message(raised.exc, u, target, raised.conflict)]>>
             ELSE <<>>
        ELSE IF raised.exc \in InvalidRedirectException
        THEN IF warn_on_conflict
             THEN <<[prefix |-> "Invalid redirect: ",
                     message |-> message(raised.exc, u, target, raised.conflict)]>>
             ELSE <<>>
        ELSE <<>>

----------------------------------------------------------------------------
(* RedirectPlugin: the per-record redirect set and the global map *)

\* str.isalpha, on the characters of the model
isalpha(c) == c \in {"a", "b", "c", "p", "r"}

\* urllib.parse.scheme_chars, on the characters of the model
scheme_chars == {"a", "b", "c", "p", "r", "."}

\* urlsplit finds a scheme: the text before the first colon starts with a
\* letter and holds scheme characters only.
has_scheme(url) ==
    /\ contains(url, ":")
    /\ LET i == CHOOSE k \in 1..Len(url) : url[k] = ":" /\ \A j \in 1..(k - 1) : url[j] # ":"
       IN  /\ i > 1
           /\ isalpha(url[1])
           /\ \A j \in 1..(i - 1) : url[j] \in scheme_chars

\* The loop of urljoin that resolves "." and ".." segments.
RECURSIVE resolved_path(_, _)
resolved_path(segments, acc) ==
    IF segments = <<>> THEN acc
    ELSE LET seg == Head(segments)
         IN  IF seg = <<".", ".">>
             THEN resolved_path(Tail(segments),
                                IF acc = <<>> THEN acc ELSE SubSeq(acc, 1, Len(acc) - 1))
             ELSE IF seg = <<".">> THEN resolved_path(Tail(segments), acc)
             ELSE resolved_path(Tail(segments), Append(acc, seg))

\* urlsplit: the text from the first "#" on is the fragment, the text
\* before it the path (for a url without scheme, host or query).
urlsplit(url) ==
    IF contains(url, "#")
    THEN LET i == CHOOSE k \in 1..Len(url) : url[k] = "#" /\ \A j \in 1..(k - 1) : url[j] # "#"
         IN  [path |-> SubSeq(url, 1, i - 1), fragment |-> SubSeq(url, i + 1, Len(url))]
    ELSE [path |-> url, fragment |-> <<>>]

\* urlunsplit: the "#" is written only before a fragment that is not empty.
urlunsplit(path, fragment) ==
    IF fragment = <<>> THEN path ELSE path \o <<"#">> \o fragment

\* urllib.parse.urljoin(base, url) for a base that is a path and a url without
\* host or query.
urljoin(base, url) ==
    IF base = <<>> THEN url
    ELSE IF url = <<>> THEN base
    ELSE IF has_scheme(url) THEN url
    ELSE IF urlsplit(url).path = <<>> THEN urlunsplit(base, urlsplit(url).fragment)
    ELSE LET url_parts == urlsplit(url)
             parts == split(base)
             base_parts == IF parts[Len(parts)] # <<>>
                           THEN SubSeq(parts, 1, Len(parts) - 1) ELSE parts
             joined == base_parts \o split(url_parts.path)
             segments ==
                 IF startswith(url_parts.path, SLASH) THEN split(url_parts.path)
                 ELSE <<joined[1]>>
                      \o SelectSeq(SubSeq(joined, 2, Len(joined) - 1),
                                   LAMBDA seg : seg # <<>>)
                      \o <<joined[Len(joined)]>>
             resolved == resolved_path(segments, <<>>)
             path == join(IF segments[Len(segments)] \in {<<".">>, <<".", ".">>}
                          THEN Append(resolved, <<>>) ELSE resolved)
         IN  urlunsplit(IF path = <<>> THEN SLASH ELSE path, url_parts.fragment)

\* abs_url of iter_redirect_map
abs_url(u) == urljoin(base_path, lstrip(u))

\* sorted(S) for a set of str
RECURSIVE sorted(_)
sorted(S) ==
    IF S = {} THEN <<>>
    ELSE LET least == CHOOSE s \in S : \A t \in S \ {s} : StrLess(s, t)
         IN  <<least>> \o sorted(S \ {least})

\* The loop of iter_redirect_map over the sorted keys.
RECURSIVE yield_entries(_, _)
yield_entries(index, urls) ==
    IF urls = <<>> THEN <<>>
    ELSE LET redirect_url == Head(urls)
             target == getitem(index, redirect_url)
         IN  (IF is_conflict(index, redirect_url, target).value = FALSE
              THEN << <<abs_url(redirect_url), abs_url(url_path(target))>> >>
              ELSE <<>>)
             \o yield_entries(index, Tail(urls))

\* The arguments of the two abs_url calls of each yield of that loop: the
\* redirect URL and the target's URL before the base path is applied.
RECURSIVE yielded_urls(_, _)
yielded_urls(index, urls) ==
    IF urls = <<>> THEN <<>>
    ELSE LET redirect_url == Head(urls)
             target == getitem(index, redirect_url)
         IN  (IF is_conflict(index, redirect_url, target).value = FALSE
              THEN << <<redirect_url, url_path(target)>> >>
              ELSE <<>>)
             \o yielded_urls(index, Tail(urls))

\* RedirectPlugin.iter_redirect_map(pad), on the index it has built.
iter_redirect_map(index) == yield_entries(index, sorted(iter(index)))

\* The messages of the is_conflict calls that iter_redirect_map makes, in the
\* order of the keys.
RECURSIVE iter_redirect_map_reports(_, _)
iter_redirect_map_reports(index, urls) ==
    IF urls = <<>> THEN <<>>
    ELSE is_conflict_reports(index, Head(urls), getitem(index, Head(urls)), TRUE)
         \o iter_redirect_map_reports(index, Tail(urls))

\* get_redirect_urls without the conflict filter.
get_redirect_urls_Unfiltered(record, index) == _get_redirect_urls(record)

\* RedirectPlugin.get_redirect_urls(record), on the index get_index gave it.
get_redirect_urls(record, index) ==
    {redirect_url \in _get_redirect_urls(record) :
        is_conflict(index, redirect_url, record).value = FALSE}

\* The messages of the is_conflict calls that get_redirect_urls makes, for
\* the order in which the set comprehension meets the URLs.
RECURSIVE get_redirect_urls_reports(_, _, _)
get_redirect_urls_reports(record, index, urls) ==
    IF urls = <<>> THEN <<>>
    ELSE is_conflict_reports(index, Head(urls), record, TRUE)
         \o get_redirect_urls_reports(record, index, Tail(urls))

\* A cache that returns whatever index it holds, whichever pad is asked for.
cache_hit_AnyKey(p) == DOMAIN _index_cache

\* self._index_cache[pad] of get_index: the key the cached index is found
\* under, if there is one.
cache_hit(p) == IF p \in DOMAIN _index_cache THEN {p} ELSE {}

\* RedirectPlugin.get_index(pad): the index returned (value) with its identity
\* (id), whether it was built by this call, and the cache afterwards.
get_index(p) ==
    IF cache_hit(p) # {}
    THEN {[cache |-> _index_cache, ids |-> index_id, value |-> _index_cache[k],
           id |-> index_id[k], built |-> FALSE] : k \in cache_hit(p)}
    ELSE {[cache |-> (p :> index) @@ _index_cache,
           ids |-> (p :> Cardinality(DOMAIN index_id) + 1) @@ index_id,
           value |-> index, id |-> Cardinality(DOMAIN index_id) + 1,
           built |-> TRUE] : index \in RedirectIndex}

----------------------------------------------------------------------------
(* The calls *)

Init ==
    /\ redirect_from \in Trees
    /\ base_path \in BasePaths
    /\ alternatives = {}
    /\ template = "redirect.html"
    /\ verbosity = 0
    /\ _index_cache = <<>>
    /\ index_id = <<>>
    /\ env = Registered
    /\ DefaultContexts
    /\ reported = <<>>
    /\ result = NoCall

\* RedirectPlugin.get_index(p): the cached index, built on the first call.
GetIndex(p) ==
    /\ result = NoCall
    /\ \E got \in get_index(p) :
           /\ _index_cache' = got.cache
           /\ index_id' = got.ids
           /\ result' = [op |-> "get_index", pad |-> p, value |-> got.value,
                         id |-> got.id, built |-> got.built]
    /\ reported' = <<>>
    /\ UNCHANGED <<site, scopes, env>>

\* RedirectPlugin.get_redirect_urls(source)
GetRedirectUrls(source) ==
    /\ result = NoCall
    /\ IF _get_redirect_urls(source) = {}
       THEN /\ result' = [op |-> "get_redirect_urls", source |-> source, value |-> {}]
            /\ reported' = <<>>
            /\ UNCHANGED <<_index_cache, index_id>>
       ELSE \E got \in get_index(pad) :
                /\ _index_cache' = got.cache
                /\ index_id' = got.ids
                /\ result' = [op |-> "get_redirect_urls", source |-> source,
                              value |-> get_redirect_urls(source, got.value)]
                /\ \E urls \in Orders(_get_redirect_urls(source)) :
                       reported' = get_redirect_urls_reports(source, got.value, urls)
    /\ UNCHANGED <<site, scopes, env>>

\* RedirectPlugin.iter_redirect_map(pad), run to the end: the entries yielded,
\* from a fresh index.
IterRedirectMap ==
    /\ result = NoCall
    /\ \E index \in RedirectIndex :
           /\ result' = [op |-> "iter_redirect_map", value |-> iter_redirect_map(index),
                         yielded |-> yielded_urls(index, sorted(iter(index)))]
           /\ reported' = iter_redirect_map_reports(index, sorted(iter(index)))
    /\ UNCHANGED <<site, scopes, env, _index_cache, index_id>>

\* The URLs the index is asked about: the declared ones, the target's own, and
\* two fixed ones that a tree may leave undeclared.
QueryUrls(target) ==
    DeclaredUrls \cup {url_path(target), <<"/", "b", "/">>, <<"/", "r", "/">>}

\* index[key] on the cached index
Getitem(key) ==
    /\ result = NoCall
    /\ pad \in DOMAIN _index_cache
    /\ result' = [op |-> "getitem", key |-> key,
                  value |-> IF key \in iter(_index_cache[pad])
                            THEN getitem(_index_cache[pad], key) ELSE "KeyError"]
    /\ _index_cache' = [_index_cache EXCEPT ![pad]._redirects = subscript(@, key).dict]
    /\ reported' = <<>>
    /\ UNCHANGED <<site, scopes, env, index_id>>

\* index.is_conflict(url_path, target, warn_on_conflict) on the cached index,
\* with the raise_on_conflict call it makes: what that call signalled (exc,
\* conflict), what is_conflict made of it and what it reported.
IsConflict(u, target, warn_on_conflict) ==
    /\ result = NoCall
    /\ pad \in DOMAIN _index_cache
    /\ LET signalled == raise_on_conflict(_index_cache[pad], u, target)
           returned == is_conflict(_index_cache[pad], u, target)
       IN  result' = [op |-> "is_conflict", url_path |-> u, target |-> target,
                      warn_on_conflict |-> warn_on_conflict,
                      exc |-> signalled.exc, conflict |-> signalled.conflict,
                      returned |-> returned]
    /\ reported' = is_conflict_reports(_index_cache[pad], u, target, warn_on_conflict)
    /\ UNCHANGED <<site, scopes, env, _index_cache, index_id>>

\* The caller takes the value returned, and the messages captured.
Return ==
    /\ result # NoCall
    /\ result' = NoCall
    /\ reported' = <<>>
    /\ UNCHANGED <<site, scopes, env, _index_cache, index_id>>

Next ==
    \/ Return
    \/ GetIndex(pad)
    \/ IterRedirectMap
    \/ \E source \in Records \cup {Asset} : GetRedirectUrls(source)
    \/ \E key \in DeclaredUrls \cup {<<"/", "b", "/">>} : Getitem(key)
    \/ \E target \in Records : \E u \in QueryUrls(target) : IsConflict(u, target, TRUE)

Spec == Init /\ [][Next]_vars

\* The same plugin under a reporter of either verbosity, with the calls that
\* report and is_conflict told not to warn.
InitReport ==
    /\ redirect_from \in Trees
    /\ base_path \in BasePaths
    /\ alternatives = {}
    /\ template = "redirect.html"
    /\ verbosity \in Verbosities
    /\ _index_cache = <<>>
    /\ index_id = <<>>
    /\ env = Registered
    /\ DefaultContexts
    /\ reported = <<>>
    /\ result = NoCall

NextReport ==
    \/ Return
    \/ GetIndex(pad)
    \/ IterRedirectMap
    \/ \E source \in Records \cup {Asset} : GetRedirectUrls(source)
    \/ \E target \in Records : \E u \in QueryUrls(target) : IsConflict(u, target, FALSE)

SpecReport == InitReport /\ [][NextReport]_vars

----------------------------------------------------------------------------
(* Claims about the index, the conflict check and the resolution service *)

\* Record declares u: u is one of its normalized declarations.
Declares(record, u) == u \in _get_redirect_urls(record)

\* u is the canonical URL of a record of the tree.
IsCanonicalUrl(u) == \E record \in Records : url_path(record) = u

\* The host's URL resolution finds a record at u.
HostFinds(u) == resolve_url_path(u) # None

\* The elements of a sequence.
Range(seq) == {seq[i] : i \in 1..Len(seq)}

\* The position of a record in the tree walk.
WalkPosition(record) == CHOOSE i \in 1..Len(walk_records) : walk_records[i] = record

\* C1: a built index never maps a URL u to a record whose own URL is u,
\* whatever spellings the records declare, and if R is the only record that
\* declares its own URL u, then u is no key of the index.
C1_SelfRedirectExcluded ==
    pad \in DOMAIN _index_cache =>
        LET index == _index_cache[pad]
        IN  /\ \A u \in iter(index) :
                   \A record \in Range(index._redirects[u]) : url_path(record) # u
            /\ \A record \in Records :
                   (/\ Declares(record, url_path(record))
                    /\ \A other \in Records \ {record} : ~Declares(other, url_path(record)))
                   => url_path(record) \notin iter(index)

\* C1 witness: "/a" declares its own URL in two spellings, "/a" and "../a",
\* and the index built from the tree has no key "/a/".
C1_Witness ==
    /\ pad \in DOMAIN _index_cache
    /\ redirect_from["/a"] = {<<"/", "a">>, <<".", ".", "/", "a">>}
    /\ <<"/", "a", "/">> \notin iter(_index_cache[pad])

\* C2: raise_on_conflict(u, T) signals a self-redirect if T's URL is u;
\* otherwise a shadowing conflict naming the existing record if u is the URL
\* of a record or the host finds a record at u; otherwise an ambiguous
\* redirect naming another declarer if the index holds a record other than T
\* for u; otherwise nothing. is_conflict returns true exactly when one of the
\* three is signalled, and lets no conflict escape.
C2_ConflictPriority ==
    result.op = "is_conflict" =>
        LET u == result.url_path
            target == result.target
            index == _index_cache[pad]
            others == IF u \in iter(index)
                      THEN Range(index._redirects[u]) \ {target} ELSE {}
        IN  /\ IF url_path(target) = u
               THEN result.exc = "RedirectToSelfException"
               ELSE IF IsCanonicalUrl(u) \/ HostFinds(u)
               THEN /\ result.exc = "RedirectShadowsExistingRecordException"
                    /\ result.conflict = IF IsCanonicalUrl(u)
                                         THEN CHOOSE record \in Records : url_path(record) = u
                                         ELSE resolve_url_path(u)
               ELSE IF others # {}
               THEN /\ result.exc = "AmbiguousRedirectException"
                    /\ result.conflict \in others
               ELSE result.exc = None
            /\ result.returned.raised = None
            /\ result.returned.value = (result.exc # None)

\* C2 witness: a URL that another record declares too and that the host
\* resolves to an existing record: the check reports the shadowing.
C2_Witness ==
    /\ result.op = "is_conflict"
    /\ result.url_path \in iter(_index_cache[pad])
    /\ Range(_index_cache[pad]._redirects[result.url_path]) \ {result.target} # {}
    /\ result.exc = "RedirectShadowsExistingRecordException"
    /\ result.returned.value = TRUE

\* The URLs a tree speaks of.
KnownUrls == DeclaredUrls \cup {url_path(record) : record \in Records}

\* C3: iter_redirect_map emits the entry of source u and target T.url_path
\* (each with the base path applied) if and only if T declares u, u is not T's
\* own URL, u is not the URL of a record nor found by the host, and no record
\* other than T declares u.
C3_MapContent ==
    result.op = "iter_redirect_map" =>
        \A target \in Records : \A u \in KnownUrls :
            (<<abs_url(u), abs_url(url_path(target))>> \in Range(result.value))
            <=> (/\ Declares(target, u)
                 /\ u # url_path(target)
                 /\ ~IsCanonicalUrl(u)
                 /\ ~HostFinds(u)
                 /\ \A other \in Records \ {target} : ~Declares(other, u))

\* C4: get_redirect_urls(R) is the set of R's normalized declarations less
\* those in conflict: it holds neither R's own URL, nor the URL of a record,
\* nor a URL that another record declares; a source without the field, or not
\* subscriptable, gets the empty set.
C4_RedirectUrls ==
    result.op = "get_redirect_urls" =>
        LET source == result.source
        IN  IF source \notin HasField THEN result.value = {}
            ELSE /\ result.value =
                        {u \in _get_redirect_urls(source) :
                            /\ u # url_path(source)
                            /\ ~IsCanonicalUrl(u)
                            /\ ~HostFinds(u)
                            /\ \A other \in Records \ {source} : ~Declares(other, u)}
                 /\ url_path(source) \notin result.value
                 /\ \A record \in Records : url_path(record) \notin result.value
                 /\ \A u \in result.value :
                        \A other \in Records \ {source} : ~Declares(other, u)

\* C4 witness: a record one of whose declarations is kept and another dropped.
C4_Witness ==
    /\ result.op = "get_redirect_urls"
    /\ result.source \in HasField
    /\ result.value # {}
    /\ result.value # _get_redirect_urls(result.source)

\* C5: the entries iter_redirect_map emits are strictly increasing by source
\* URL, with the base path applied: sorted, and no source URL twice.
C5_StrictlyIncreasing ==
    result.op = "iter_redirect_map" =>
        \A i \in 1..(Len(result.value) - 1) :
            StrLess(result.value[i][1], result.value[i + 1][1])

\* C6: the keys of a built index are the normalized URLs that some record
\* other than the one living at that URL declares; index[u] is one of those
\* records; len(index) is their number; no key has zero candidates, and a
\* tree without declarations gives an empty index.
C6_IndexContents ==
    pad \in DOMAIN _index_cache =>
        LET index == _index_cache[pad]
            expected == {u \in DeclaredUrls :
                            \E record \in Records :
                                Declares(record, u) /\ url_path(record) # u}
        IN  /\ \A key \in iter(index) : Len(index._redirects[key]) > 0
            /\ iter(index) = expected
            /\ \A u \in iter(index) :
                   Declares(getitem(index, u), u) /\ url_path(getitem(index, u)) # u
            /\ len(index) = Cardinality(expected)
            /\ (\A record \in Records : redirect_from[record] = {}) => len(index) = 0

\* C6 witness: "/a/" is declared by the record that lives there and by
\* another one: it is a key, and its only candidate is the other record.
C6_Witness ==
    /\ pad \in DOMAIN _index_cache
    /\ Declares("/a", <<"/", "a", "/">>)
    /\ Declares("/a/b", <<"/", "a", "/">>)
    /\ _index_cache[pad]._redirects = (<<"/", "a", "/">> :> <<"/a/b">>)

C7_LookupReturnsHead ==
    (result.op = "getitem" /\ result.key \in iter(_index_cache[pad])) =>
        /\ result.value = _index_cache[pad]._redirects[result.key][1]
        /\ Declares(result.value, result.key)

\* A step leaves a built index as it is.
IndexUnchanged == pad \in DOMAIN _index_cache => _index_cache' = _index_cache

----------------------------------------------------------------------------
(* Claims about the diagnostics *)

\* The messages in reported that speak of the redirect from u.
ReportsAbout(u) == {i \in 1..Len(reported) : reported[i].message.url_path = u}

\* C11: get_redirect_urls reports exactly one message for each URL it
\* removes and none for a URL it keeps: "Invalid redirect: <from> =>
\* <target>: <reason>" for a shadowing or ambiguous conflict, the reason
\* naming the conflicting record; "Ignoring redirect: ... redirect to self"
\* for a redirect to self when the verbosity is at least 1, and nothing for it
\* at verbosity 0. is_conflict with warn_on_conflict = false reports nothing.
C11_Diagnostics ==
    /\ result.op = "get_redirect_urls" =>
           LET source == result.source
               declared == _get_redirect_urls(source)
           IN  /\ \A i \in 1..Len(reported) : reported[i].message.url_path \in declared
               /\ \A u \in declared :
                      LET about == ReportsAbout(u)
                      IN  IF u \in result.value THEN about = {}
                          ELSE IF u = url_path(source)
                          THEN /\ verbosity = 0 => about = {}
                               /\ verbosity >= 1 =>
                                      /\ Cardinality(about) = 1
                                      /\ \A i \in about :
                                             /\ reported[i].prefix = "Ignoring redirect: "
                                             /\ reported[i].message.target = source
                                             /\ reported[i].message.reason.text = "redirect to self"
                          ELSE /\ Cardinality(about) = 1
                               /\ \A i \in about :
                                      /\ reported[i].prefix = "Invalid redirect: "
                                      /\ reported[i].message.target = source
                                      /\ IF IsCanonicalUrl(u) \/ HostFinds(u)
                                         THEN /\ reported[i].message.reason.text =
                                                     "redirect url conflicts with existing record"
                                              /\ reported[i].message.reason.conflict =
                                                     IF IsCanonicalUrl(u)
                                                     THEN CHOOSE record \in Records : url_path(record) = u
                                                     ELSE resolve_url_path(u)
                                         ELSE /\ reported[i].message.reason.text =
                                                     "conflicts with redirect"
                                              /\ reported[i].message.reason.url_path = u
                                              /\ reported[i].message.reason.conflict \in Records \ {source}
                                              /\ Declares(reported[i].message.reason.conflict, u)
    /\ (result.op = "is_conflict" /\ ~result.warn_on_conflict) => reported = <<>>

\* C11 witness: at verbosity 1, a record that declares its own URL and the URL
\* of an existing record gets an empty set and the two messages, one of each
\* kind.
C11_Witness ==
    /\ result.op = "get_redirect_urls"
    /\ verbosity = 1
    /\ result.value = {}
    /\ Len(reported) = 2
    /\ {reported[1].prefix, reported[2].prefix} = {"Ignoring redirect: ", "Invalid redirect: "}

----------------------------------------------------------------------------
(* Redirect: the context-local switch and the URL resolver (sources.py) *)

\* A single flag shared by every context.
set_Global(var, c, value) == [x \in Contexts |-> value]

\* ContextVar.set(value) in context c: only the value seen in c changes.
\* The token it returns is [old_value |-> the value seen in c before].
set(var, c, value) == [var EXCEPT ![c] = value]

\* ContextVar.reset(token) paired by hand with a clear: the flag is switched
\* off, whatever it was at entry.
reset_Clears(var, c, token) == [var EXCEPT ![c] = FALSE]

\* ContextVar.reset(token) in context c: the value the token remembers.
reset(var, c, token) == [var EXCEPT ![c] = token.old_value]

\* Entering the scope without touching the variable.
disable_url_resolution_Noop(var, c) == var

\* Redirect.disable_url_resolution, on entry: the variable after
\* cls._disable_url_resolution.set(True).
disable_url_resolution(var, c) == set(var, c, TRUE)

\* The value of _resolve_url_path that stands for None.
NoRedirect == [record |-> None, url_path |-> <<>>]

\* _resolve_url_path without the test of the switch.
_resolve_url_path_IgnoresSwitch(c, record, segments) ==
    {[cache |-> got.cache, ids |-> got.ids, looked_up |-> TRUE,
      value |-> LET from_url == normalize_url_path(url_path(record), join(segments))
                IN  IF from_url \in iter(got.value)
                    THEN [record |-> getitem(got.value, from_url), url_path |-> from_url]
                    ELSE NoRedirect] : got \in get_index(pad)}

\* Redirect._resolve_url_path(record, url_path) called in context c: the
\* Redirect returned (its record and url_path) or NoRedirect, whether the
\* index was consulted, and the cache afterwards.
_resolve_url_path(c, record, segments) ==
    IF ~_disable_url_resolution[c]
    THEN LET from_url == normalize_url_path(url_path(record), join(segments))
         IN  {[cache |-> [got.cache EXCEPT
                             ![pad]._redirects = subscript(@, from_url).dict],
               ids |-> got.ids, looked_up |-> TRUE,
               value |-> IF from_url \in iter(got.value)
                         THEN [record |-> getitem(got.value, from_url), url_path |-> from_url]
                         ELSE NoRedirect] : got \in get_index(pad)}
    ELSE {[cache |-> _index_cache, ids |-> index_id, looked_up |-> FALSE,
           value |-> NoRedirect]}

\* raise_on_conflict from the end of the lookup on: existing is what the
\* lookup gave.
raise_after_lookup(index, u, target, existing) ==
    LET candidates == IF u \in DOMAIN index._redirects THEN index._redirects[u] ELSE <<>>
        others == {i \in 1..Len(candidates) : candidates[i] # target}
    IN  IF existing # None
        THEN [exc |-> "RedirectShadowsExistingRecordException", conflict |-> existing]
        ELSE IF others # {}
        THEN [exc |-> "AmbiguousRedirectException",
              conflict |-> candidates[CHOOSE i \in others : \A j \in others : i <= j]]
        ELSE NoConflict

\* The declarations the trees of the resolver runs are made of: "/" and "/a"
\* both declare "b" ("/b/"), "/a" declares "c.a" ("/c.a") too, "/a/b"
\* declares "/a" (the URL of a record) and "b" (its own URL).
ResolveDecls ==
    {<<"/", <<"b">>>>, <<"/a", <<"b">>>>, <<"/a", <<"c", ".", "a">>>>,
     <<"/a/b", <<"/", "a">>>>, <<"/a/b", <<"b">>>>}

ResolveTrees ==
    {[record \in Records |-> {d[2] : d \in {e \in D : e[1] = record}}] :
        D \in SUBSET ResolveDecls}

\* The segment lists the resolver is called with.
Segments == {<< <<"b">> >>, << <<"a">> >>, << <<".", ".">>, <<"b">> >>}

\* The URLs and targets the conflict check is called with.
CheckUrls == {<<"/", "b", "/">>, <<"/", "r", "/">>, <<"/", "a", "/">>}

CheckTargets == {"/", "/a"}

InitResolve ==
    /\ redirect_from \in ResolveTrees
    /\ base_path = SLASH
    /\ alternatives = {}
    /\ template = "redirect.html"
    /\ verbosity = 0
    /\ _index_cache = <<>>
    /\ index_id = <<>>
    /\ env = Registered
    /\ DefaultContexts
    /\ reported = <<>>
    /\ result = NoCall

\* with Redirect.disable_url_resolution(): entered by a caller in context c.
EnterScope(c) ==
    /\ result = NoCall
    /\ lookup[c] = NoLookup
    /\ Len(tokens[c]) < MaxDepth
    /\ tokens' = [tokens EXCEPT ![c] = Append(@, [old_value |-> _disable_url_resolution[c]])]
    /\ _disable_url_resolution' = disable_url_resolution(_disable_url_resolution, c)
    /\ result' = [op |-> "enter", ctx |-> c]
    /\ UNCHANGED <<site, env, _index_cache, index_id, lookup, reported>>

\* The innermost scope of context c is left, at the end of its body or by an
\* exception raised in it: the finally clause resets the variable.
ExitScope(c, raised) ==
    /\ result = NoCall
    /\ lookup[c] = NoLookup
    /\ tokens[c] # <<>>
    /\ LET token == tokens[c][Len(tokens[c])]
       IN  /\ _disable_url_resolution' = reset(_disable_url_resolution, c, token)
           /\ result' = [op |-> "exit", ctx |-> c, raised |-> raised,
                         entered_with |-> token.old_value]
    /\ tokens' = [tokens EXCEPT ![c] = SubSeq(@, 1, Len(@) - 1)]
    /\ UNCHANGED <<site, env, _index_cache, index_id, lookup, reported>>

\* Redirect._resolve_url_path(record, segments), called in context c.
ResolveUrlPath(c, record, segments) ==
    /\ result = NoCall
    /\ lookup[c] = NoLookup
    /\ \E got \in _resolve_url_path(c, record, segments) :
           /\ _index_cache' = got.cache
           /\ index_id' = got.ids
           /\ result' = [op |-> "_resolve_url_path", by |-> "caller", ctx |-> c,
                         record |-> record, segments |-> segments,
                         value |-> got.value, looked_up |-> got.looked_up,
                         cache_before |-> _index_cache]
    /\ UNCHANGED <<site, env, scopes, reported>>

\* index.raise_on_conflict(url_path, target) on the cached index, called in
\* context c, up to the host lookup: it raises at once for a redirect to self
\* or a URL of records_by_url, and else enters the scope and asks the host.
BeginCheck(c, u, target) ==
    /\ result = NoCall
    /\ lookup[c] = NoLookup
    /\ Len(tokens[c]) < MaxDepth
    /\ pad \in DOMAIN _index_cache
    /\ IF url_path(target) = u
       THEN /\ result' = [op |-> "raise_on_conflict", ctx |-> c, url_path |-> u,
                          target |-> target, exc |-> "RedirectToSelfException",
                          conflict |-> None,
                          entered_with |-> _disable_url_resolution[c]]
            /\ UNCHANGED scopes
       ELSE IF u \in DOMAIN _index_cache[pad]._records_by_url
       THEN /\ result' = [op |-> "raise_on_conflict", ctx |-> c, url_path |-> u,
                          target |-> target,
                          exc |-> "RedirectShadowsExistingRecordException",
                          conflict |-> _index_cache[pad]._records_by_url[u],
                          entered_with |-> _disable_url_resolution[c]]
            /\ UNCHANGED scopes
       ELSE /\ tokens' = [tokens EXCEPT
                             ![c] = Append(@, [old_value |-> _disable_url_resolution[c]])]
            /\ _disable_url_resolution' = disable_url_resolution(_disable_url_resolution, c)
            /\ lookup' = [lookup EXCEPT
                             ![c] = [stage |-> "resolve", url_path |-> u, target |-> target,
                                     entered_with |-> _disable_url_resolution[c],
                                     found |-> None]]
            /\ result' = [op |-> "pad.resolve_url_path", ctx |-> c, url_path |-> u]
    /\ UNCHANGED <<site, env, _index_cache, index_id, reported>>

\* During the lookup of context c the host, finding no record below node for
\* the rest of the path, calls the URL resolver the plugin registered.
HostCallback(c, node, rest) ==
    /\ result = NoCall
    /\ lookup[c].stage = "resolve"
    /\ lookup[c].found = None
    /\ <<"urlresolver", "Redirect">> \in env
    /\ is_page(node)
    /\ rest # <<>>
    /\ pieces(url_path(node)) \o rest = pieces(lookup[c].url_path)
    /\ \E got \in _resolve_url_path(c, node, rest) :
           /\ _index_cache' = got.cache
           /\ index_id' = got.ids
           /\ lookup' = [lookup EXCEPT ![c].found = got.value.record]
           /\ result' = [op |-> "_resolve_url_path", by |-> "host", ctx |-> c,
                         record |-> node, segments |-> rest,
                         value |-> got.value, looked_up |-> got.looked_up,
                         cache_before |-> _index_cache]
    /\ UNCHANGED <<site, env, _disable_url_resolution, tokens, reported>>

\* The lookup of context c returns: the scope is left, and raise_on_conflict
\* goes on to raise or to return.
EndCheck(c) ==
    /\ result = NoCall
    /\ lookup[c].stage = "resolve"
    /\ LET token == tokens[c][Len(tokens[c])]
           own == resolve_url_path(lookup[c].url_path)
           existing == IF own # None THEN own ELSE lookup[c].found
           raised == raise_after_lookup(_index_cache[pad], lookup[c].url_path,
                                        lookup[c].target, existing)
       IN  /\ _disable_url_resolution' = reset(_disable_url_resolution, c, token)
           /\ result' = [op |-> "raise_on_conflict", ctx |-> c,
                         url_path |-> lookup[c].url_path, target |-> lookup[c].target,
                         exc |-> raised.exc, conflict |-> raised.conflict,
                         entered_with |-> lookup[c].entered_with]
    /\ tokens' = [tokens EXCEPT ![c] = SubSeq(@, 1, Len(@) - 1)]
    /\ lookup' = [lookup EXCEPT ![c] = NoLookup]
    /\ UNCHANGED <<site, env, _index_cache, index_id, reported>>

NextResolve ==
    \/ Return
    \/ GetIndex(pad)
    \/ \E c \in Contexts : EnterScope(c)
    \/ \E c \in Contexts : \E raised \in BOOLEAN : ExitScope(c, raised)
    \/ \E c \in Contexts : \E record \in {"/", "/a"} : \E segments \in Segments :
           ResolveUrlPath(c, record, segments)
    \/ \E c \in Contexts : \E u \in CheckUrls : \E target \in CheckTargets :
           BeginCheck(c, u, target)
    \/ \E c \in Contexts : \E node \in Records : \E rest \in Segments :
           HostCallback(c, node, rest)
    \/ \E c \in Contexts : EndCheck(c)

SpecResolve == InitResolve /\ [][NextResolve]_vars

----------------------------------------------------------------------------
(* Claims about the URL resolver and the switch that disables it *)

\* C12: Redirect._resolve_url_path(record, segments) returns the Redirect of
\* target index[u] and url_path u, for u = normalize_url_path(record,
\* "/".join(segments)) and index the cached index of the pad, exactly when
\* resolution is not disabled in the calling context and u is a key of the
\* index; in every other case, and always inside a disable_url_resolution
\* scope, it returns None.
C12_Resolution ==
    result.op = "_resolve_url_path" =>
        LET u == normalize_url_path(url_path(result.record), join(result.segments))
            disabled == _disable_url_resolution[result.ctx]
        IN  /\ ~disabled => pad \in DOMAIN _index_cache
            /\ IF ~disabled /\ u \in iter(_index_cache[pad])
               THEN result.value = [record |-> getitem(_index_cache[pad], u), url_path |-> u]
               ELSE result.value = NoRedirect

\* C12 witness: a caller outside every scope resolves segments relative to
\* "/a" and gets a Redirect to a record of the index.
C12_Witness ==
    /\ result.op = "_resolve_url_path"
    /\ result.by = "caller"
    /\ result.record = "/a"
    /\ result.value # NoRedirect
    /\ result.value.record = getitem(_index_cache[pad], result.value.url_path)

\* C13: while raise_on_conflict has the host look a URL up, resolution is
\* disabled in its context, so every call the host makes back to the
\* resolver during the lookup returns None without consulting or building an
\* index and gives the lookup nothing; and when raise_on_conflict returns or
\* raises, the switch has the value it had when the call began.
C13_NoMutualRecursion ==
    /\ \A c \in Contexts :
           lookup[c].stage = "resolve" =>
               /\ _disable_url_resolution[c]
               /\ lookup[c].found = None
    /\ (result.op = "_resolve_url_path" /\ result.by = "host") =>
           /\ result.value = NoRedirect
           /\ ~result.looked_up
           /\ _index_cache = result.cache_before
    /\ result.op = "raise_on_conflict" =>
           _disable_url_resolution[result.ctx] = result.entered_with

\* C13 witness: during a lookup the host calls the resolver back for a URL
\* that is a key of the cached index, and gets None.
C13_Witness ==
    /\ result.op = "_resolve_url_path"
    /\ result.by = "host"
    /\ pad \in DOMAIN _index_cache
    /\ normalize_url_path(url_path(result.record), join(result.segments))
           \in iter(_index_cache[pad])
    /\ result.value = NoRedirect

\* C14: leaving a disable_url_resolution scope, at the end of its body or by
\* an exception, gives the switch the value it had when that scope was
\* entered: resolution is disabled in a context exactly while the context is
\* inside some scope, so until the outermost one is left, and the switch is
\* off once all are.
C14_ScopedReset ==
    /\ \A c \in Contexts :
           /\ _disable_url_resolution[c] = (tokens[c] # <<>>)
           /\ \A i \in 1..Len(tokens[c]) : tokens[c][i].old_value = (i > 1)
    /\ result.op = "exit" =>
           _disable_url_resolution[result.ctx] = result.entered_with

\* C14 witness: an inner scope is left by an exception and resolution is
\* still disabled, the outer scope being open.
C14_Witness ==
    /\ result.op = "exit"
    /\ result.raised
    /\ result.entered_with
    /\ Len(tokens[result.ctx]) = 1
    /\ _disable_url_resolution[result.ctx]

\* A context outside every scope sees the switch off, and its resolver calls
\* consult the index.
C15_OffOutsideScopes ==
    /\ \A c \in Contexts : tokens[c] = <<>> => ~_disable_url_resolution[c]
    /\ (result.op = "_resolve_url_path" /\ tokens[result.ctx] = <<>>) => result.looked_up

\* A step changes the switch only in a context that enters or leaves a scope.
C15_OtherContextsUntouched ==
    \A c \in Contexts :
        tokens'[c] = tokens[c] => _disable_url_resolution'[c] = _disable_url_resolution[c]

\* C15: the switch is local to a context: under every interleaving, a context
\* that is inside no scope sees it off and its _resolve_url_path calls look
\* the index up, whatever scopes the other context is inside, and entering
\* or leaving a scope in one context never changes the value the other sees.
C15_ContextLocal ==
    /\ []C15_OffOutsideScopes
    /\ [][C15_OtherContextsUntouched]_vars

\* C15 witness: one context resolves a URL to a Redirect while the other is
\* inside a scope.
C15_Witness ==
    /\ result.op = "_resolve_url_path"
    /\ result.looked_up
    /\ result.value # NoRedirect
    /\ tokens[result.ctx] = <<>>
    /\ \E other \in Contexts \ {result.ctx} :
           tokens[other] # <<>> /\ _disable_url_resolution[other]

----------------------------------------------------------------------------
(* The plugin in its environment: setup, the index cache, the generator *)

\* A second snapshot of the same content tree (env.new_pad() once more).
pad2 == "pad2"

Pads == {pad, pad2}

\* Values of list_alternatives() and of the "redirect.template" setting.
Alternatives == {{}, {"en"}}

Templates == {None, "", "redirect.html"}

\* RedirectPlugin._ensure_alts_disabled: the error it raises, if any.
_ensure_alts_disabled == IF alternatives # {} THEN "RuntimeError" ELSE None

\* on_setup_env registering first and checking afterwards.
on_setup_env_RegistersFirst ==
    [raised |-> _ensure_alts_disabled, env |-> env \cup Registered]

\* RedirectPlugin.on_setup_env: the error raised, and the environment after.
on_setup_env ==
    IF _ensure_alts_disabled # None
    THEN [raised |-> _ensure_alts_disabled, env |-> env]
    ELSE [raised |-> None,
          env |-> (env \cup _setup_env("Redirect", "redirect"))
                      \cup _setup_env("RedirectMap", "redirect-map")]

\* A generator that takes any setting, even none, for a template.
if_template_Always == TRUE

\* "if template:" of _generator: the setting is there and not empty.
if_template == template \notin {None, ""}

\* Redirect._generator(source), run to the end: the Redirects yielded, for
\* the order urls in which the set of get_redirect_urls is met.
_generator(source, index, urls) ==
    IF source = Asset THEN <<>>
    ELSE IF ~if_template THEN <<>>
    ELSE [i \in 1..Len(SelectSeq(urls, LAMBDA u : u \in get_redirect_urls(source, index)))
             |-> [record |-> source,
                  url_path |-> SelectSeq(urls, LAMBDA u :
                                   u \in get_redirect_urls(source, index))[i]]]

InitPlugin ==
    /\ redirect_from \in ResolveTrees
    /\ base_path = SLASH
    /\ alternatives \in Alternatives
    /\ template \in Templates
    /\ verbosity = 0
    /\ _index_cache = <<>>
    /\ index_id = <<>>
    /\ env = {}
    /\ DefaultContexts
    /\ reported = <<>>
    /\ result = NoCall

\* RedirectPlugin.on_setup_env()
OnSetupEnv ==
    /\ result = NoCall
    /\ env' = on_setup_env.env
    /\ result' = [op |-> "on_setup_env", raised |-> on_setup_env.raised, env_before |-> env]
    /\ reported' = <<>>
    /\ UNCHANGED <<site, scopes, _index_cache, index_id>>

\* RedirectPlugin.on_before_build_all(builder)
OnBeforeBuildAll ==
    /\ result = NoCall
    /\ result' = [op |-> "on_before_build_all", raised |-> _ensure_alts_disabled]
    /\ reported' = <<>>
    /\ UNCHANGED <<site, scopes, env, _index_cache, index_id>>

\* list(Redirect._generator(source))
Generator(source) ==
    /\ result = NoCall
    /\ IF source = Asset \/ ~if_template \/ _get_redirect_urls(source) = {}
       THEN /\ result' = [op |-> "_generator", source |-> source,
                          value |-> _generator(source, <<>>, <<>>)]
            /\ reported' = <<>>
            /\ UNCHANGED <<_index_cache, index_id>>
       ELSE \E got \in get_index(pad) :
                /\ _index_cache' = got.cache
                /\ index_id' = got.ids
                /\ \E urls \in Orders(_get_redirect_urls(source)) :
                       /\ result' = [op |-> "_generator", source |-> source,
                                     value |-> _generator(source, got.value, urls)]
                       /\ reported' = get_redirect_urls_reports(source, got.value, urls)
    /\ UNCHANGED <<site, scopes, env>>

NextPlugin ==
    \/ Return
    \/ OnSetupEnv
    \/ OnBeforeBuildAll
    \/ \E p \in Pads : GetIndex(p)
    \/ \E source \in Records \cup {Asset} : Generator(source)

SpecPlugin == InitPlugin /\ [][NextPlugin]_vars

----------------------------------------------------------------------------
(* Claims about the cache, the setup and the generator *)

\* What get_index returned is the object the cache holds for the pad it was
\* asked for, and no other pad has that object.
C16_OwnIndex ==
    /\ result.op = "get_index" =>
           /\ result.pad \in DOMAIN _index_cache
           /\ result.value = _index_cache[result.pad]
           /\ result.id = index_id[result.pad]
           /\ \A q \in DOMAIN index_id \ {result.pad} : index_id[q] # result.id
    /\ \A p, q \in DOMAIN index_id : p # q => index_id[p] # index_id[q]

\* Once a pad has its index, no step replaces it, and a get_index call for
\* that pad returns that very object without building; a call for a pad
\* without one builds.
C16_BuiltOnce ==
    \A p \in Pads :
        /\ p \in DOMAIN _index_cache =>
               /\ p \in DOMAIN _index_cache'
               /\ _index_cache'[p] = _index_cache[p]
               /\ index_id'[p] = index_id[p]
        /\ (result = NoCall /\ result'.op = "get_index" /\ result'.pad = p) =>
               IF p \in DOMAIN _index_cache
               THEN ~result'.built /\ result'.id = index_id[p]
               ELSE result'.built

\* C16: the index of a snapshot is built by the first get_index call for it,
\* every later call for the same snapshot returns the identical object
\* without building, and calls for different snapshots never return the same
\* object.
C16_IndexCache ==
    /\ []C16_OwnIndex
    /\ [][C16_BuiltOnce]_vars

\* C16 witness: both snapshots have their index, and a further call for one
\* of them returns the cached object.
C16_Witness ==
    /\ result.op = "get_index"
    /\ ~result.built
    /\ DOMAIN _index_cache = Pads
    /\ result.id = index_id[result.pad]

\* C18: with alternatives configured on_setup_env raises before it registers
\* anything, so nothing of the plugin is ever registered in the environment,
\* and on_before_build_all raises the same error; without alternatives both
\* complete, and setup has registered the build program, the generator, the
\* virtual-path resolver and the URL resolver of both virtual source kinds.
C18_AlternativesFatal ==
    /\ alternatives # {} => env = {}
    /\ result.op = "on_setup_env" =>
           IF alternatives # {}
           THEN result.raised = "RuntimeError" /\ env = result.env_before
           ELSE /\ result.raised = None
                /\ \A kind \in {<<"Redirect", "redirect">>, <<"RedirectMap", "redirect-map">>} :
                       {<<"add_build_program", kind[1]>>, <<"generator", kind[1]>>,
                        <<"virtualpathresolver", kind[2]>>, <<"urlresolver", kind[1]>>}
                           \subseteq env
    /\ result.op = "on_before_build_all" =>
           result.raised = IF alternatives # {} THEN "RuntimeError" ELSE None

\* C18 witness: setup has raised on a site with alternatives.
C18_Witness ==
    /\ result.op = "on_setup_env"
    /\ alternatives # {}
    /\ result.raised = "RuntimeError"
    /\ env = {}

\* C19: Redirect._generator(source) yields nothing without a configured
\* template and for a source that is not a record; otherwise exactly one
\* Redirect for each URL of get_redirect_urls(source), with record = source
\* and url_path = that URL, and nothing else.
C19_Generator ==
    result.op = "_generator" =>
        IF result.source = Asset \/ template \in {None, ""}
        THEN result.value = <<>>
        ELSE LET urls == IF _get_redirect_urls(result.source) = {} THEN {}
                         ELSE get_redirect_urls(result.source, _index_cache[pad])
             IN  /\ Len(result.value) = Cardinality(urls)
                 /\ {result.value[i].url_path : i \in 1..Len(result.value)} = urls
                 /\ \A i \in 1..Len(result.value) : result.value[i].record = result.source

\* C19 witness: a record with two declarations that are kept gets its two
\* Redirects.
C19_Witness ==
    /\ result.op = "_generator"
    /\ Len(result.value) = 2
    /\ result.value[1].url_path # result.value[2].url_path
    /\ result.value[1].record = "/a"

----------------------------------------------------------------------------
(* The redirect map of a site mounted under a base path *)

\* The declarations the trees of the map runs are made of: none of them
\* normalizes to the URL of another, to a URL with a doubled slash, or to its
\* record's own URL, but "/a/b" declares the URL of the attachment "/a/c.a".
MapDecls ==
    {<<"/a", ColonUrl>>, <<"/a", FragmentUrl>>, <<"/a", <<"b">>>>, <<"/", <<"c", ".", "a">>>>,
     <<"/a/b", <<"c", ".", "a">>>>, <<"/a/b", <<"/", "a">>>>}

MapTrees ==
    {[record \in Records |-> {d[2] : d \in {e \in D : e[1] = record}}] :
        D \in SUBSET MapDecls}

InitMap ==
    /\ redirect_from \in MapTrees
    /\ base_path \in BasePaths
    /\ alternatives = {}
    /\ template = "redirect.html"
    /\ verbosity = 0
    /\ _index_cache = <<>>
    /\ index_id = <<>>
    /\ env = Registered
    /\ DefaultContexts
    /\ reported = <<>>
    /\ result = NoCall

NextMap ==
    \/ Return
    \/ GetIndex(pad)
    \/ IterRedirectMap
    \/ \E source \in Records : GetRedirectUrls(source)

SpecMap == InitMap /\ [][NextMap]_vars

\* The base path followed by the URL without its leading slash.
Prefixed(u) == base_path \o Tail(u)

\* C17: the source and the target of every entry iter_redirect_map emits
\* are the base path followed by the unprefixed URL without its leading "/":
\* each entry is the prefixed form of a URL some record declares and of that
\* record's own URL; with base path "/" they are the URLs themselves.
C17_BasePrefix ==
    result.op = "iter_redirect_map" =>
        \A i \in 1..Len(result.value) :
            \E target \in Records : \E u \in _get_redirect_urls(target) :
                /\ result.value[i] = <<Prefixed(u), Prefixed(url_path(target))>>
                /\ base_path = SLASH => result.value[i] = <<u, url_path(target)>>

----------------------------------------------------------------------------
(* nginx_quote_for_map (util.py) *)

SPACE == " "
TAB == "\t"
DQUOTE == "\""
SQUOTE == "'"
BACKSLASH == "\\"

\* The characters of the strings that are quoted in the model.
QuoteChars == {"a", SPACE, TAB, DQUOTE, SQUOTE, "$", BACKSLASH, ";", "{", "}"}

\* A string as the sequence of its characters, for the words below.
include == <<"i", "n", "c", "l", "u", "d", "e">>

ReservedWords ==
    {<<"d", "e", "f", "a", "u", "l", "t">>,
     <<"h", "o", "s", "t", "n", "a", "m", "e", "s">>,
     include,
     <<"v", "o", "l", "a", "t", "i", "l", "e">>}

\* The strings quoted in the model: the short ones over QuoteChars, and a
\* reserved word alone, continued by a word character, and followed by "/".
QuoteInputs ==
    Paths(0) \cup UNION {[1..k -> QuoteChars] : k \in 1..MaxQuoteLen}
             \cup {include, include \o <<"s">>, include \o <<"/", "a">>}

\* \w of the regular expressions, on the characters of the model.
is_word(c) ==
    c \in {"a", "c", "d", "e", "f", "h", "i", "l", "m", "n", "o", "s", "t", "u", "v"}

\* re.search(r"[ \"'{};]", s)
needs_quotes(s) == \E i \in 1..Len(s) : s[i] \in {SPACE, DQUOTE, SQUOTE, "{", "}", ";"}

\* quot: empty, or the double quote unless s has one and no single quote.
quot(s) ==
    IF needs_quotes(s)
    THEN IF contains(s, DQUOTE) /\ ~contains(s, SQUOTE) THEN <<SQUOTE>> ELSE <<DQUOTE>>
    ELSE <<>>

\* re.sub(rf"[{quot}$\\]", r"\\\g<0>", s): a backslash before each quot
\* character, "$" and backslash.
RECURSIVE escape(_, _)
escape(s, q) ==
    IF s = <<>> THEN <<>>
    ELSE (IF s[1] \in {"$", BACKSLASH} \/ <<s[1]>> = q
          THEN <<BACKSLASH, s[1]>> ELSE <<s[1]>>) \o escape(Tail(s), q)

\* The match without the \b: a reserved word as a mere prefix.
is_special_Prefix(escaped) == \E word \in ReservedWords : startswith(escaped, word)

\* re.match(r"(default|hostnames|include|volatile)\b", escaped)
is_special(escaped) ==
    \E word \in ReservedWords :
        /\ startswith(escaped, word)
        /\ Len(escaped) = Len(word) \/ ~is_word(escaped[Len(word) + 1])

\* util.nginx_quote_for_map(s)
nginx_quote_for_map(s) ==
    LET q == quot(s)
        escaped == escape(s, q)
    IN  q \o (IF q = <<>> /\ is_special(escaped) THEN <<BACKSLASH>> \o escaped
              ELSE escaped) \o q

InitQuote ==
    /\ redirect_from = NoDeclarations
    /\ base_path = SLASH
    /\ alternatives = {}
    /\ template = None
    /\ verbosity = 0
    /\ _index_cache = <<>>
    /\ index_id = <<>>
    /\ env = Registered
    /\ DefaultContexts
    /\ reported = <<>>
    /\ \E s \in QuoteInputs : result = [op |-> "input", s |-> s]

\* nginx_quote_for_map(s)
NginxQuoteForMap ==
    /\ result.op = "input"
    /\ result' = [op |-> "nginx_quote_for_map", s |-> result.s,
                  value |-> nginx_quote_for_map(result.s)]
    /\ UNCHANGED <<site, scopes, _index_cache, index_id, env, reported>>

NextQuote == NginxQuoteForMap

SpecQuote == InitQuote /\ [][NextQuote]_vars

----------------------------------------------------------------------------
(* Claims about the quoting: the text read back as nginx reads a map file *)

\* The first position from i on that holds an unescaped character of stops
\* (a backslash takes the character after it along), or Len(text) + 1.
RECURSIVE TokenEnd(_, _, _)
TokenEnd(text, i, stops) ==
    IF i > Len(text) THEN Len(text) + 1
    ELSE IF text[i] = BACKSLASH THEN TokenEnd(text, i + 2, stops)
    ELSE IF text[i] \in stops THEN i
    ELSE TokenEnd(text, i + 1, stops)

\* The value of a token: a backslash before a quote or a backslash is
\* dropped, "\t" is a tab, every other backslash stays.
RECURSIVE Unescape(_)
Unescape(raw) ==
    IF raw = <<>> THEN <<>>
    ELSE IF raw[1] = BACKSLASH /\ Len(raw) >= 2 /\ raw[2] \in {DQUOTE, SQUOTE, BACKSLASH}
    THEN <<raw[2]>> \o Unescape(SubSeq(raw, 3, Len(raw)))
    ELSE IF raw[1] = BACKSLASH /\ Len(raw) >= 2 /\ raw[2] = "t"
    THEN <<TAB>> \o Unescape(SubSeq(raw, 3, Len(raw)))
    ELSE <<raw[1]>> \o Unescape(Tail(raw))

\* A map source parameter: one leading backslash, put there to keep a
\* special parameter name from its meaning, is not part of the value.
SourceValue(token) ==
    IF token # <<>> /\ token[1] = BACKSLASH THEN Tail(token) ELSE token

\* The tokens of one line of a map file from position i on: blanks separate
\* tokens, a token that starts with a quote runs to the matching quote, ";"
\* and "{" end the statement, "#" starts a comment. ok is false when the
\* line is no sequence of complete tokens.
RECURSIVE ReadTokens(_, _, _)
ReadTokens(text, i, read) ==
    IF i > Len(text) THEN [tokens |-> read, ok |-> TRUE]
    ELSE IF text[i] \in {SPACE, TAB} THEN ReadTokens(text, i + 1, read)
    ELSE IF text[i] \in {";", "{", "}"} THEN [tokens |-> read, ok |-> FALSE]
    ELSE IF text[i] = "#" THEN [tokens |-> read, ok |-> TRUE]
    ELSE IF text[i] \in {DQUOTE, SQUOTE}
    THEN LET close == TokenEnd(text, i + 1, {text[i]})
         IN  IF close > Len(text) THEN [tokens |-> read, ok |-> FALSE]
             ELSE IF close < Len(text) /\ text[close + 1] \notin {SPACE, TAB, ";", "{"}
             THEN [tokens |-> read, ok |-> FALSE]
             ELSE ReadTokens(text, close + 1,
                             Append(read, Unescape(SubSeq(text, i + 1, close - 1))))
    ELSE LET stop == TokenEnd(text, i, {SPACE, TAB, ";", "{"})
         IN  ReadTokens(text, stop,
                        Append(read, SourceValue(Unescape(SubSeq(text, i, stop - 1)))))

\* C20: for every string s without a newline, nginx_quote_for_map(s) read
\* back as nginx reads a map file is exactly one token, of value s.
C20_RoundTrip ==
    result.op = "nginx_quote_for_map" =>
        ReadTokens(result.value, 1, <<>>) = [tokens |-> <<result.s>>, ok |-> TRUE]

----------------------------------------------------------------------------
(* Claims about the quoting rules *)

\* s contains a character that makes nginx_quote_for_map quote it.
Quoted(s) == \E i \in 1..Len(s) : s[i] \in {SPACE, DQUOTE, SQUOTE, "{", "}", ";"}

\* The quote character the rules choose for s, as a string; empty if none.
ChosenQuote(s) ==
    IF ~Quoted(s) THEN <<>>
    ELSE IF contains(s, DQUOTE) /\ ~contains(s, SQUOTE) THEN <<SQUOTE>>
    ELSE <<DQUOTE>>

\* The position in the escaped text of the i-th character of s, when each
\* character of chars gets one backslash before it.
EscapedAt(s, chars, i) == i + Cardinality({j \in 1..i : s[j] \in chars})

\* b is s with exactly one backslash before each character of chars.
IsEscaped(b, s, chars) ==
    /\ Len(b) = EscapedAt(s, chars, Len(s))
    /\ \A i \in 1..Len(s) :
        /\ b[EscapedAt(s, chars, i)] = s[i]
        /\ s[i] \in chars => b[EscapedAt(s, chars, i) - 1] = BACKSLASH

\* s starts with the characters of a reserved word.
HasReservedPrefix(s) == \E word \in ReservedWords : startswith(s, word)

\* s starts with a reserved word that ends there: s is the word, or the
\* character after it is no word character.
StartsWithReservedWord(s) ==
    \E word \in ReservedWords :
        /\ startswith(s, word)
        /\ Len(s) = Len(word) \/ ~is_word(s[Len(word) + 1])

\* value is s quoted by the rules, reserved telling whether an unquoted s
\* counts as starting with a reserved word.
QuotingRules(s, value, reserved) ==
    LET q == ChosenQuote(s)
        lead == IF q = <<>> /\ reserved THEN <<BACKSLASH>> ELSE <<>>
        n == Len(q) + Len(lead)
        chars == {"$", BACKSLASH} \cup Range(q)
    IN  /\ Len(value) >= n + Len(q)
        /\ SubSeq(value, 1, n) = q \o lead
        /\ q # <<>> => value[Len(value)] = q[1]
        /\ IsEscaped(SubSeq(value, n + 1, Len(value) - Len(q)), s, chars)
        /\ (q = <<>> /\ ~reserved /\ \A i \in 1..Len(s) : s[i] \notin chars) => value = s

\* C21 as stated: nginx_quote_for_map(s) quotes s iff it holds a space, a
\* quote, "{", "}" or ";", with the single quote only for a double quote and
\* no single quote in s; the quote character, "$" and backslash each get one
\* backslash; an unquoted s that has a reserved word as a prefix gets one
\* leading backslash; any other s is returned unchanged.
C21_QuotingRules ==
    result.op = "nginx_quote_for_map" =>
        QuotingRules(result.s, result.value, HasReservedPrefix(result.s))

\* C21 amended: the same rules, but the leading backslash is given only when
\* the reserved word ends where a word ends: "includes" is returned unchanged.
C21_QuotingRulesWordBoundary ==
    result.op = "nginx_quote_for_map" =>
        QuotingRules(result.s, result.value, StartsWithReservedWord(result.s))

\* "includes" has been quoted and came back unchanged.
C21_Witness ==
    /\ result.op = "nginx_quote_for_map"
    /\ result.s = include \o <<"s">>
    /\ result.value = result.s

----------------------------------------------------------------------------
(* Claims that relate generation, the global map and URL resolution *)

\* C22: for one snapshot, every record R and every URL u: u is in
\* get_redirect_urls(R), computed with the cached index, if and only if
\* iter_redirect_map, with the fresh index it built, yields the entry of
\* source u and target R.url_path, taken before the base path is applied.
C22_GenerationAgreesWithMap ==
    (result.op = "iter_redirect_map" /\ pad \in DOMAIN _index_cache) =>
        \A record \in Records : \A u \in KnownUrls :
            u \in get_redirect_urls(record, _index_cache[pad])
            <=> <<u, url_path(record)>> \in Range(result.yielded)

\* C22 witness: the map has been emitted while an index is cached; it has an
\* entry, and some record has one declaration generated and another dropped.
C22_Witness ==
    /\ result.op = "iter_redirect_map"
    /\ pad \in DOMAIN _index_cache
    /\ result.yielded # <<>>
    /\ \E record \in Records :
           get_redirect_urls(record, _index_cache[pad])
               \notin {{}, _get_redirect_urls(record)}

\* C23: the emitted map has no chains or loops: no URL is the source of one
\* emitted entry and the target of an emitted entry; every emitted target is
\* the canonical URL of a record, with the base path applied, and no emitted
\* source is.
C23_NoChains ==
    result.op = "iter_redirect_map" =>
        LET canonical == {abs_url(url_path(record)) : record \in Records}
        IN  /\ \A i, j \in 1..Len(result.value) : result.value[i][1] # result.value[j][2]
            /\ \A i \in 1..Len(result.value) :
                   /\ result.value[i][2] \in canonical
                   /\ result.value[i][1] \notin canonical

\* C24: whenever Redirect._resolve_url_path returns a redirect for URL u with
\* target T, u is in get_redirect_urls(T): a URL whose declaration is
\* ambiguous or shadows an existing record is never served as a redirect.
C24_ResolutionAgreesWithGeneration ==
    (result.op = "_resolve_url_path" /\ result.value # NoRedirect) =>
        result.value.url_path \in get_redirect_urls(result.value.record, _index_cache[pad])

----------------------------------------------------------------------------
(* Runs of the map over one tree, with the walk and the sets in any order *)

\* The depth of a record in the tree.
Level(record) == Len(pieces(url_path(record)))

\* The orders in which walk_records may yield the records, for any order of
\* the children of a page: breadth first from the root.
WalkOrders ==
    {order \in Orders(Records) :
        /\ order[1] = root
        /\ \A i, j \in 1..Len(order) : i < j => Level(order[i]) <= Level(order[j])}

\* RedirectIndex(pad) when the walk yields the records in the given order:
\* the indexes the constructor can build.
RedirectIndexFrom(order) ==
    LET by_url == [u \in {url_path(record) : record \in Records} |->
                      order[CHOOSE i \in 1..Len(order) :
                          /\ url_path(order[i]) = u
                          /\ \A j \in (i + 1)..Len(order) : url_path(order[j]) # u]]
        declarers(u) == {order[i] : i \in {j \in 1..Len(order) :
                                             u \in _get_redirect_urls(order[j])}}
        others(u) == IF u \in DOMAIN by_url THEN declarers(u) \ {by_url[u]}
                     ELSE declarers(u)
        keys == {u \in DeclaredUrls : Cardinality(others(u)) > 0}
    IN  {[_redirects |-> r, _records_by_url |-> by_url] :
            r \in {f \in [keys -> UNION {Orders(others(u)) : u \in keys}] :
                      \A u \in keys : f[u] \in Orders(others(u))}}

InitRuns ==
    /\ redirect_from \in ResolveTrees
    /\ base_path \in BasePaths
    /\ alternatives = {}
    /\ template = "redirect.html"
    /\ verbosity = 0
    /\ _index_cache = <<>>
    /\ index_id = <<>>
    /\ env = Registered
    /\ DefaultContexts
    /\ reported = <<>>
    /\ result = NoCall

NextRuns ==
    \/ Return
    \/ IterRedirectMap

SpecRuns == InitRuns /\ [][NextRuns]_vars

\* C25: the sequence iter_redirect_map emits for a tree depends neither on
\* the order of the walk nor on the candidate the index returns for a URL
\* with several declarers: every index that can be built from the tree, in
\* any walk order and any candidate order, gives the sequence this run gave.
C25_Deterministic ==
    result.op = "iter_redirect_map" =>
        \A order \in WalkOrders : \A index \in RedirectIndexFrom(order) :
            iter_redirect_map(index) = result.value

\* C25 witness: a map with an entry has been emitted from a tree in which two
\* records declare "/b/", so that the index can return either of them.
C25_Witness ==
    /\ result.op = "iter_redirect_map"
    /\ result.value # <<>>
    /\ Cardinality(targets(<<"/", "b", "/">>)) = 2

----------------------------------------------------------------------------
(* Redirect.BuildProgram: the artifacts of the redirects of a record *)

HTML_EXTS == {<<".", "h", "t", "m", "l">>, <<".", "h", "t", "m">>}

\* str.lower, on the characters of the model
lower(s) ==
    [i \in 1..Len(s) |-> CASE s[i] = "H" -> "h"
                           [] s[i] = "T" -> "t"
                           [] s[i] = "M" -> "m"
                           [] OTHER -> s[i]]

\* posixpath.splitext(p)[1]: the text from the last dot of the basename on,
\* unless only dots come before it in the basename.
splitext(p) ==
    LET name == basename(p)
        dots == {i \in 1..Len(name) : name[i] = "."}
    IN  IF dots = {} THEN <<>>
        ELSE LET dot == CHOOSE i \in dots : \A j \in dots : j <= i
             IN  IF \A i \in 1..(dot - 1) : name[i] = "." THEN <<>>
                 ELSE SubSeq(name, dot, Len(name))

\* The artifact_name of Redirect.BuildProgram.produce_artifacts for a source
\* of the given url_path.
artifact_name(u) ==
    IF endswith(u, SLASH) THEN u \o index_html
    ELSE IF lower(splitext(u)) \notin HTML_EXTS THEN u \o SLASH \o index_html
    ELSE u

\* Redirect.BuildProgram(source).produce_artifacts(): the artifact declared.
produce_artifacts(source) ==
    [artifact_name |-> artifact_name(source.url_path), sources |-> source.record,
     source |-> source]

ArtifactTrees ==
    {[record \in Records |-> {d[2] : d \in {e \in D : e[1] = record}}] :
        D \in SUBSET ArtifactDecls}

InitArtifacts ==
    /\ redirect_from \in ArtifactTrees
    /\ base_path = SLASH
    /\ alternatives = {}
    /\ template = "redirect.html"
    /\ verbosity = 0
    /\ _index_cache = <<>>
    /\ index_id = <<>>
    /\ env = Registered
    /\ DefaultContexts
    /\ reported = <<>>
    /\ result = NoCall

\* The build of one record: Redirect._generator(source), and produce_artifacts
\* of the build program of each Redirect it yields.
BuildRedirects(source) ==
    /\ result = NoCall
    /\ IF ~if_template \/ _get_redirect_urls(source) = {}
       THEN /\ result' = [op |-> "produce_artifacts", source |-> source, value |-> {}]
            /\ reported' = <<>>
            /\ UNCHANGED <<_index_cache, index_id>>
       ELSE \E got \in get_index(pad) :
                /\ _index_cache' = got.cache
                /\ index_id' = got.ids
                /\ \E urls \in Orders(_get_redirect_urls(source)) :
                       /\ result' = [op |-> "produce_artifacts", source |-> source,
                                     value |-> {produce_artifacts(redirect) :
                                                   redirect \in Range(_generator(source, got.value, urls))}]
                       /\ reported' = get_redirect_urls_reports(source, got.value, urls)
    /\ UNCHANGED <<site, scopes, env>>

NextArtifacts ==
    \/ Return
    \/ \E source \in Records : BuildRedirects(source)

SpecArtifacts == InitArtifacts /\ [][NextArtifacts]_vars

\* C26: two different redirect URLs that pass the conflict checks of one
\* tree are built into artifacts of different names: the artifact of a
\* redirect a record's build declares is not the artifact of any other URL
\* that get_redirect_urls gives for a record of the tree.
C26_DistinctArtifacts ==
    result.op = "produce_artifacts" =>
        \A built \in result.value : \A record \in Records :
            \A v \in get_redirect_urls(record, _index_cache[pad]) :
                v # built.source.url_path => artifact_name(v) # built.artifact_name

----------------------------------------------------------------------------
(* The operations of a built RedirectIndex *)

\* list(index) on the cached index
Iter ==
    /\ result = NoCall
    /\ pad \in DOMAIN _index_cache
    /\ result' = [op |-> "iter", value |-> iter(_index_cache[pad])]
    /\ reported' = <<>>
    /\ UNCHANGED <<site, scopes, env, _index_cache, index_id>>

\* len(index) on the cached index
LenIndex ==
    /\ result = NoCall
    /\ pad \in DOMAIN _index_cache
    /\ result' = [op |-> "len", value |-> len(_index_cache[pad])]
    /\ reported' = <<>>
    /\ UNCHANGED <<site, scopes, env, _index_cache, index_id>>

NextIndex ==
    \/ Return
    \/ GetIndex(pad)
    \/ Iter
    \/ LenIndex
    \/ \E key \in CheckUrls : Getitem(key)
    \/ \E u \in CheckUrls : \E target \in CheckTargets : IsConflict(u, target, TRUE)
    \/ \E record \in {"/", "/a"} : \E segments \in Segments :
           ResolveUrlPath("c1", record, segments)

SpecIndex == InitResolve /\ [][NextIndex]_vars

\* A step keeps every built index: its keys, its candidate lists and its
\* table of real URLs.
C27_IndexKept ==
    \A p \in DOMAIN _index_cache :
        /\ p \in DOMAIN _index_cache'
        /\ iter(_index_cache'[p]) = iter(_index_cache[p])
        /\ \A u \in iter(_index_cache[p]) :
               _index_cache'[p]._redirects[u] = _index_cache[p]._redirects[u]
        /\ _index_cache'[p]._records_by_url = _index_cache[p]._records_by_url

\* C27: a built RedirectIndex is immutable: no lookup, iteration, len call,
\* is_conflict call (with the raise_on_conflict it makes, reporting a conflict
\* or not, for URLs present or absent) and no Redirect._resolve_url_path call
\* changes its key set, its candidate lists or its table of real URLs.
C27_Immutable == [][C27_IndexKept]_vars

\* C27 witness: a key that the built index does not have has been looked up,
\* and the index still has the keys it had, none of them that key.
C27_Witness ==
    /\ result.op = "getitem"
    /\ result.value = "KeyError"
    /\ pad \in DOMAIN _index_cache
    /\ iter(_index_cache[pad]) # {}
    /\ result.key \notin iter(_index_cache[pad])

----------------------------------------------------------------------------
(* Claims about the base of a relative declaration *)

\* The URL a declaration of a record stands for: a relative one is joined
\* onto the URL of the record's parent, or of the record if it has none.
ExpectedUrl(record, redirect_url) ==
    normalize_url_path(url_path(IF parent(record) = None THEN record ELSE parent(record)),
                       redirect_url)

\* C28: a declaration that does not start with "/" is joined onto the URL of
\* the record's parent, and onto the record's own URL only at the root; one
\* that starts with "/" ignores the base. The index and get_redirect_urls
\* use the same rule: the keys and candidates of the index, and the URLs
\* get_redirect_urls returns or drops as conflicts, are those URLs.
C28_ParentIsBase ==
    /\ \A record \in HasField : \A redirect_url \in redirect_from[record] :
           startswith(redirect_url, SLASH) =>
               \A base \in Records :
                   normalize_url_path(url_path(base), redirect_url)
                       = ExpectedUrl(record, redirect_url)
    /\ pad \in DOMAIN _index_cache =>
           LET index == _index_cache[pad]
           IN  /\ \A u \in iter(index) : \A record \in Range(index._redirects[u]) :
                      \E redirect_url \in redirect_from[record] :
                          ExpectedUrl(record, redirect_url) = u
               /\ \A record \in HasField : \A redirect_url \in redirect_from[record] :
                      ExpectedUrl(record, redirect_url) # url_path(record) =>
                          /\ ExpectedUrl(record, redirect_url) \in iter(index)
                          /\ record \in Range(index._redirects[ExpectedUrl(record, redirect_url)])
    /\ (result.op = "get_redirect_urls" /\ result.source \in HasField) =>
           LET expected == {ExpectedUrl(result.source, redirect_url) :
                               redirect_url \in redirect_from[result.source]}
           IN  /\ result.value \subseteq expected
               /\ \A u \in expected \ result.value :
                      is_conflict(_index_cache[pad], u, result.source).value

\* C28 witness: "/a" declares the relative "b"; get_redirect_urls gives "/b/",
\* the name joined onto the URL of the parent, not "/a/b/".
C28_Witness ==
    /\ result.op = "get_redirect_urls"
    /\ result.source = "/a"
    /\ redirect_from["/a"] = {<<"b">>}
    /\ result.value = {<<"/", "b", "/">>}

----------------------------------------------------------------------------
(* walk_records, one next() at a time, over the content trees of a bound *)

\* The largest number of records of a content tree of the walks.
MaxNodes == 4

\* The content trees: records 1..n with 1 the root; every other record lies
\* below a page of smaller number; a record is a page or an attachment, and
\* discoverable or not.
WalkTreesOf(n, P) ==
    {[n |-> n, parent |-> p, page |-> P, discoverable |-> D] :
        p \in {f \in [2..n -> 1..n] : \A i \in 2..n : f[i] < i /\ f[i] \in P},
        D \in {S \in SUBSET (1..n) : 1 \in S}}

WalkTrees ==
    UNION {UNION {WalkTreesOf(n, P) : P \in {S \in SUBSET (1..n) : 1 \in S}} :
              n \in 1..MaxNodes}

\* A set of record numbers in the order in which the host lists them.
RECURSIVE ascending(_)
ascending(S) ==
    IF S = {} THEN <<>>
    ELSE LET least == CHOOSE i \in S : \A j \in S : i <= j
         IN  <<least>> \o ascending(S \ {least})

\* The query record.children of a page, as include_undiscoverable and
\* _include_attachments set it up.
query(tree, record, include_undiscoverable, include_attachments) ==
    ascending({child \in 2..tree.n :
                  /\ tree.parent[child] = record
                  /\ include_undiscoverable \/ child \in tree.discoverable
                  /\ include_attachments \/ child \in tree.page})

\* The walk extending the deque with the query as the host sets it up by
\* default: discoverable pages only.
extend_DefaultQuery(tree, record) ==
    IF record \in tree.page THEN query(tree, record, FALSE, FALSE) ELSE <<>>

\* What one iteration of the loop of walk_records extends the deque with:
\* for a Page the query with undiscoverable records and attachments included,
\* for any other record nothing.
extend(tree, record) ==
    IF record \in tree.page THEN query(tree, record, TRUE, TRUE) ELSE <<>>

\* The two functions of the package that are called walk_records.
util_walk_records == "lektor_redirect.util.walk_records"
legacy_walk_records == "lektor_redirect.walk_records"

\* get_ctx(): the build context that is active when the walk runs, if any.
ActiveContexts == {None, "Context"}

\* The assertion made by both functions.
precondition_Both(function, ctx) == ctx = None

\* assert get_ctx() is None, which only the walk_records of __init__.py makes.
precondition(function, ctx) == function = legacy_walk_records => ctx = None

InitWalk ==
    /\ redirect_from = NoDeclarations
    /\ base_path = SLASH
    /\ alternatives = {}
    /\ template = None
    /\ verbosity = 0
    /\ _index_cache = <<>>
    /\ index_id = <<>>
    /\ env = Registered
    /\ DefaultContexts
    /\ reported = <<>>
    /\ \E function \in {util_walk_records, legacy_walk_records} :
       \E tree \in WalkTrees : \E ctx \in ActiveContexts :
           result = [op |-> "walk_records", function |-> function, pad |-> tree,
                     ctx |-> ctx, state |-> "created", records |-> <<>>,
                     yielded |-> <<>>]

\* next() on the generator walk_records(pad) returned: the body runs from its
\* start, or from the last yield, to the next yield or to its end.
NextRecord ==
    /\ result.op = "walk_records"
    /\ result.state \in {"created", "suspended"}
    /\ LET records == IF result.state = "created" THEN <<1>> ELSE result.records
       IN  IF result.state = "created" /\ ~precondition(result.function, result.ctx)
           THEN result' = [result EXCEPT !.state = "AssertionError"]
           ELSE IF records = <<>>
           THEN result' = [result EXCEPT !.state = "finished"]
           ELSE result' = [result EXCEPT
                              !.state = "suspended",
                              !.records = Tail(records) \o extend(result.pad, Head(records)),
                              !.yielded = Append(@, Head(records))]
    /\ UNCHANGED <<site, scopes, _index_cache, index_id, env, reported>>

NextWalk == NextRecord

SpecWalk == InitWalk /\ [][NextWalk]_vars

\* The loop that consumes the generator runs it to its end.
SpecWalkToEnd == SpecWalk /\ WF_vars(NextWalk)

----------------------------------------------------------------------------
(* Claims about the tree walk *)

\* The records right below the records of a level: those below its first
\* record in the host's order, then those below its second, and so on.
RECURSIVE Below(_, _)
Below(tree, level) ==
    IF level = <<>> THEN <<>>
    ELSE ascending({child \in 2..tree.n : tree.parent[child] = Head(level)})
         \o Below(tree, Tail(level))

\* The records of a tree level by level, from the given level on.
RECURSIVE LevelOrder(_, _)
LevelOrder(tree, level) ==
    IF level = <<>> THEN <<>>
    ELSE level \o LevelOrder(tree, Below(tree, level))

\* The walk has not failed on its precondition.
Walking == result.op = "walk_records" /\ result.state # "AssertionError"

\* What the walk has yielded so far is the beginning of the breadth-first
\* order, which is all of it at the end; no record is yielded twice, the
\* root comes first and every other record after its parent.
C29_BreadthFirst ==
    Walking =>
        LET expected == LevelOrder(result.pad, <<1>>)
            yielded == result.yielded
        IN  /\ Len(yielded) <= Len(expected)
            /\ yielded = SubSeq(expected, 1, Len(yielded))
            /\ \A i, j \in 1..Len(yielded) : i # j => yielded[i] # yielded[j]
            /\ \A i \in 1..Len(yielded) :
                   IF yielded[i] = 1 THEN i = 1
                   ELSE \E j \in 1..(i - 1) : yielded[j] = result.pad.parent[yielded[i]]
            /\ result.state = "finished" =>
                   /\ Range(yielded) = 1..result.pad.n
                   /\ Len(yielded) = result.pad.n

\* C29: for every finite content tree walk_records yields every page and
\* every attachment reachable from the root, undiscoverable ones included,
\* exactly once each, the root first and every record after its parent, in
\* breadth-first order, and then terminates; an attachment is yielded and not
\* expanded.
C29_TreeWalk ==
    /\ []C29_BreadthFirst
    /\ <>(result.state = "finished" \/ ~Walking)

\* C29 witness: the walk of a tree of four records, one of them an
\* attachment and one an undiscoverable page with a child, has finished.
C29_Witness ==
    /\ result.op = "walk_records"
    /\ result.state = "finished"
    /\ result.pad.n = 4
    /\ \E attachment \in 2..4 : attachment \notin result.pad.page
    /\ \E child \in 3..4 : result.pad.parent[child] \notin result.pad.discoverable

\* C30 as stated: walk_records invoked while a build context is active fails
\* at once with an assertion failure and yields no record; it produces
\* records only when no context is active.
C30_Precondition ==
    (result.op = "walk_records" /\ result.ctx # None) =>
        /\ result.state \in {"created", "AssertionError"}
        /\ result.yielded = <<>>

\* C30 amended: only the walk_records of __init__.py asserts that no context
\* is active, and fails on its first next() without yielding a record; the
\* walk_records of util.py, the one RedirectIndex uses, makes no assertion and
\* walks the tree in an active context as it does outside one.
C30_PreconditionLegacyOnly ==
    result.op = "walk_records" =>
        /\ (result.ctx # None /\ result.function = legacy_walk_records) =>
               /\ result.state \in {"created", "AssertionError"}
               /\ result.yielded = <<>>
        /\ result.state = "AssertionError" =>
               /\ result.ctx # None
               /\ result.function = legacy_walk_records
        /\ (result.function = util_walk_records /\ result.state = "finished") =>
               Range(result.yielded) = 1..result.pad.n

\* C30 witness: the walk_records of util.py has walked a tree of several
\* records to the end while a context was active.
C30_Witness ==
    /\ result.op = "walk_records"
    /\ result.function = util_walk_records
    /\ result.ctx # None
    /\ result.state = "finished"
    /\ Len(result.yielded) = result.pad.n
    /\ result.pad.n > 1

====
